---- MODULE Spec2Model ----
(***************************************************************************)
(* Model of ygyuri/Web_Crawler.                                            *)
(*                                                                         *)
(* Part 1: the circuit breaker of crawler/client.py (HTTPClient), with     *)
(*         several fetch() coroutines running on one event loop.           *)
(* Part 2: the crawl control loop of crawler/scraper.py                    *)
(*         (BookScraper.crawl_all_books) over the persisted crawler state. *)
(*                                                                         *)
(* Part 3: one book batch of crawler/scraper.py (_crawl_books_batch with    *)
(*         its concurrent _crawl_single_book coroutines).                  *)
(*                                                                         *)
(* Part 4: the per-key rate limiter of api/middleware.py                   *)
(*         (RateLimitMiddleware).                                          *)
(* Part 5: the daily job of scheduler/tasks.py                             *)
(*         (TaskScheduler.run_daily_crawl).                                *)
(* Part 6: the retry wrapper of utils/retry.py (retry_on_http_error),      *)
(*         around an arbitrary operation and around HTTPClient.fetch.      *)
(* Part 7: the connection manager of database/connection.py (Database),   *)
(*         with several coroutines calling it on one event loop.           *)
(* Part 8: the crawler_state collection behind                            *)
(*         database/repositories/state_repository.py (StateRepository).    *)
(* Part 9: upsert_book of database/repositories/book_repository.py, with  *)
(*         several coroutines writing to the books collection.             *)
(* Part 10: GET /changes of api/routes/changes.py over the changes        *)
(*         collection of database/repositories/change_repository.py.       *)
(* Part 11: the catalog walk of scheduler/change_detector.py              *)
(*         (ChangeDetector.detect_changes) with the concurrent             *)
(*         _process_single_book coroutines of every page.                  *)
(* Part 12: _process_single_book of scheduler/change_detector.py for one  *)
(*         URL, with the fields of the book that are hashed and compared.   *)
(* Part 13: GET /books/{book_id} of api/routes/books.py                    *)
(* Part 14: the page loop of crawl_all_books (crawler/scraper.py) with the  *)
(*         page numbers past the end of the catalog kept as one value, so  *)
(*         that a loop that never ends is a cycle of the state graph.      *)
(*                                                                         *)
(* Each part has its own specification; the variables of the other parts   *)
(* stay at their initial values.                                           *)
(***************************************************************************)
EXTENDS Integers, Sequences, FiniteSets, TLC

(***************************************************************************)
(* Bounds of the model                                                     *)
(***************************************************************************)
\* number of concurrent fetch() coroutines on one HTTPClient
NumTasks == 3
\* total number of fetch() calls started in one behaviour
MaxCalls == 5
\* horizon of the monotonic clock
MaxTime == 7
\* settings.crawler.circuit_breaker_failure_threshold (configurable; default 5)
circuit_failure_threshold == 2
\* settings.crawler.circuit_breaker_reset_timeout (configurable; default 60)
circuit_reset_timeout == 2
\* settings.crawler.circuit_breaker_half_open_max_calls (configurable; default 2)
circuit_half_open_max_calls == 1
\* HTTPClient.max_concurrent (configurable; default 10)
max_concurrent == 2

\* catalog pages the site serves (page-1.html .. page-N.html); any later page is a 404
NumCatalogPages == 2
\* highest page number the main loop is followed to
MaxPageNo == 3
\* largest max_pages argument tried
MaxPagesArg == 1
\* crawl_all_books calls in one behaviour
MaxRuns == 2

\* distinct book URLs offered to _crawl_books_batch
NumUrls == 2
\* longest book_urls list passed to _crawl_books_batch
MaxBatchLen == 2
\* _crawl_books_batch calls in one behaviour
MaxBatches == 2
\* `max_attempts = 2` in _crawl_books_batch
max_attempts == 2

\* API keys that send requests
NumKeys == 2
\* RateLimitMiddleware.requests_per_hour (configurable; default 100)
requests_per_hour == 2
\* length of the rate-limit window in clock ticks (3600 seconds in the code)
RateWindow == 2
\* horizon of time.time()
MaxRateTime == 4
\* requests dispatched in one behaviour
MaxRequests == 4

\* run_daily_crawl coroutines that can be alive at once
NumJobs == 2
\* run_daily_crawl calls in one behaviour
MaxTriggers == 3

\* settings.crawler.max_retries (configurable; default 3)
max_retries == 3
\* calls of a function wrapped by retry_on_http_error in one behaviour
MaxRetryCalls == 2

\* coroutines that call Database.connect
NumCallers == 2
\* connect, disconnect and get_database calls in one behaviour
MaxDbCalls == 5

\* highest page number passed to save_state and update_last_page
MaxStatePage == 2
\* StateRepository calls in one behaviour
MaxStateOps == 3

\* coroutines that call upsert_book
NumWriters == 2
\* upsert_book calls in one behaviour
MaxUpserts == 2

\* documents in the changes collection
MaxChanges == 3
\* highest `limit` of a GET /changes request
MaxLimit == 2
\* highest `page` of a GET /changes request
MaxChangePage == 2
\* GET /changes requests in one behaviour
MaxChangeCalls == 2

\* detect_changes calls in one behaviour
MaxDetectRuns == 2

\* _process_single_book calls for one URL in one behaviour
MaxProcessCalls == 2

\* strings that are well-formed ObjectIds
NumObjectIds == 2
\* strings that are not: source URLs and other texts
NumTexts == 2
\* GET /books/{book_id} requests in one behaviour
MaxGetBookCalls == 3

\* crawl_all_books calls of the page-loop part in one behaviour
MaxLoopRuns == 2

Tasks == 1..NumTasks

Urls == 1..NumUrls

Keys == 1..NumKeys

\* a request without the API-key header
NoKey == 0

Jobs == 1..NumJobs

Callers == 1..NumCallers

Writers == 1..NumWriters

\* Python's None (every number of the model is >= 0)
None == -1

VARIABLES
    \* ---- HTTPClient (crawler/client.py) ----
    circuit_state,        \* self._circuit_state
    failure_count,        \* self._failure_count
    circuit_open_until,   \* self._circuit_open_until
    half_open_attempts,   \* self._half_open_attempts
    semaphore,            \* free permits of self.semaphore
    now,                  \* time.monotonic()
    task_pc,              \* position of every fetch() coroutine
    outcome,              \* how the last fetch() of every coroutine ended
    admitted_in,          \* breaker state in which the coroutine's latest request was admitted
    resolved_in,          \* breaker state in which the coroutine's latest GET resolved
    calls,                \* fetch() calls started so far
    gets,                 \* network GETs issued so far
    trials,               \* requests admitted since the breaker last entered half-open
    \* ---- BookScraper.crawl_all_books (crawler/scraper.py) ----
    pc,                   \* position inside crawl_all_books
    db_state,             \* crawler_state collection: <<>> or <<the document>>
    books,                \* source_urls stored in the books collection
    resume,               \* argument resume
    max_pages,            \* argument max_pages
    start_page,
    page,
    current_page,
    pages_processed,
    last_processed_page,
    hit_max_page_limit,
    total_books,
    failed_catalog_pages,
    book_urls,            \* catalog_summary.book_urls
    has_next,             \* catalog_summary.has_next
    seen_urls,            \* self._seen_urls
    retry_queue,          \* pages _retry_catalog_pages still has to visit
    retry_total,          \* total_books inside _retry_catalog_pages
    exc,                  \* exception propagating out of crawl_all_books
    closed,               \* close() has run for the current call
    client_open,          \* self.client holds a started HTTPClient
    db_connected,         \* Database.client is set
    runs,                 \* crawl_all_books calls started
    prev_state,           \* db_state when the current call started
    fetch_log,            \* catalog pages the main loop fetched successfully, in order
    processed_log,        \* [page, pass] of every book batch completed by the current call, in order
    ckpt_log,             \* documents written by save_state during the current call, in order
    retry_log,            \* catalog pages the retry pass attempted, in order
    batch_log,            \* [urls, ok] of every _crawl_books_batch of the current call: the
                          \* URLs that passed the filter and those that returned a Book
    \* ---- BookScraper._crawl_books_batch (crawler/scraper.py) ----
    b_pc,                 \* position inside _crawl_books_batch
    urls_to_crawl,        \* list returned by _filter_urls_for_crawl
    remaining,            \* URLs of the current round
    attempt,
    success_count,
    results,              \* results of asyncio.gather, by position in `remaining`
    batch_result,         \* value returned by the last _crawl_books_batch call
    failed_crawls,        \* failed_crawls collection: url -> stored entry
    record_calls,         \* record_failed_crawl calls made by the current batch
    how_log,              \* url -> how each _crawl_single_book(url) of the current batch went
    slept,                \* backoff sleeps of the current batch, in seconds
    batches,              \* _crawl_books_batch calls started
    \* ---- RateLimitMiddleware (api/middleware.py) ----
    requests,             \* self.requests: key -> list of timestamps
    rate_now,             \* time.time()
    downstream,           \* key -> timestamps at which a request was passed to call_next
    in_handler,           \* key -> requests currently inside call_next
    last_response,        \* the last response a dispatch produced
    dispatched,           \* dispatch calls started
    \* ---- TaskScheduler.run_daily_crawl (scheduler/tasks.py) ----
    lock,                 \* self.lock is held
    job_pc,               \* position of every run_daily_crawl coroutine
    triggers,             \* run_daily_crawl calls started
    history,               \* how every finished run_daily_crawl call ended, in order
    \* ---- retry_on_http_error (utils/retry.py) around an operation and around HTTPClient.fetch ----
    r_pc,                 \* position inside the wrapper returned by retry_on_http_error
    r_fn,                 \* the wrapped coroutine function of the current call
    attempt_number,       \* tenacity's attempt_number of the current call
    r_log,                \* [get, raised] of every invocation of the wrapped function in the current call
    r_result,             \* what the current call returned or raised
    r_calls,               \* calls of a wrapped function started
    \* ---- Database (database/connection.py) ----
    db_client,            \* Database.client is set
    database,             \* Database.database is set
    conn_pc,              \* position of every connect() coroutine
    conn_result,          \* how the last connect() of every coroutine ended
    connect_returned,     \* a connect() returned normally and no disconnect() was called since
    get_result,           \* what the last get_database() did, and connect_returned at that moment
    db_calls,              \* connect, disconnect and get_database calls started
    \* ---- StateRepository (database/repositories/state_repository.py) ----
    crawler_state,        \* the crawler_state collection: a set of documents
    state_log,            \* save_state and update_last_page calls since the last clear_state, in order
    state_got,            \* what the last get_last_state() returned, and state_log at that moment
    state_ops,             \* StateRepository calls made
    \* ---- BookRepository.upsert_book (database/repositories/book_repository.py) ----
    books_coll,           \* the books collection: a set of documents [id, source_url, value]
    next_id,              \* the next ObjectId the store hands out
    up_pc,                \* position of every upsert_book coroutine
    up_book,              \* the book every upsert_book coroutine was called with
    up_matched,           \* whether the filter of the coroutine's update_one matched a document
    up_id,                \* result.upserted_id of the coroutine's update_one
    written,              \* source_url -> value of the update_one applied last
    returned,             \* [source_url, id] of every upsert_book call that returned, in order
    upserts,               \* upsert_book calls started
    \* ---- GET /changes (api/routes/changes.py, database/repositories/change_repository.py) ----
    changes_coll,         \* the changes collection: documents [change_type, detected_at] in insertion order
    change_request,       \* the query parameters of the last GET /changes, and the collection it ran on
    change_response,      \* total and items of the last GET /changes response
    change_calls,          \* GET /changes requests handled
    \* ---- ChangeDetector.detect_changes (scheduler/change_detector.py) ----
    cd_pc,                \* position inside detect_changes
    cd_page,              \* page
    cd_seen,              \* seen_urls
    stats,                \* stats of the current detect_changes call
    cd_tasks,             \* the _process_single_book coroutines of the current page, in gather order
    cd_store,             \* books collection: source_url -> stored content (None when absent)
    new_book_entries,     \* source_url -> 'new_book' change entries written during the current call
    field_entries,        \* source_url -> field change entries written during the current call
    cd_started,           \* source_url -> _process_single_book coroutines started during the current call
    cd_fetches,           \* [page, how, urls] of every catalog page fetch of the current call
    cd_outcome,           \* how the last detect_changes call ended, and whether close() ran
    cd_runs,               \* detect_changes calls started
    \* ---- ChangeDetector._process_single_book for one URL (scheduler/change_detector.py) ----
    pb_pc,                \* position inside _process_single_book
    pb_book,              \* the Book parse_book_page returned
    pb_doc,               \* the document stored for the URL: [present, book]
    pb_existing,          \* existing_doc as find_one returned it
    pb_entries,           \* change entries the current call wrote, in order: [type, field]
    pb_upserts,           \* upsert_book calls of the current call
    pb_stats,             \* the stats the call returned
    pb_result,            \* how the call ended
    pb_calls,              \* _process_single_book calls started
    \* ---- GET /books/{book_id} (api/routes/books.py) ----
    gb_store,             \* the books collection: for each ObjectId the source_url of its document, or 0
    gb_request,           \* the {book_id} of the last GET /books/{book_id}
    gb_response,          \* the response of the last GET /books/{book_id}
    gb_calls,              \* requests handled
    \* ---- the page loop of crawl_all_books past the end of the catalog (crawler/scraper.py) ----
    pl_pc,                \* position inside crawl_all_books
    pl_max_pages,         \* the max_pages argument (None: unset)
    pl_page,              \* `page`; every page number past the catalog is kept as Beyond
    pl_current,           \* `current_page`
    pl_processed,         \* `pages_processed`, counted up to CountCap
    pl_hit,               \* `hit_max_page_limit`
    pl_failed,            \* sorted(set(failed_catalog_pages))
    pl_retry,             \* the pages _retry_catalog_pages has still to visit
    pl_closed,            \* close() has run in the last call
    pl_runs               \* crawl_all_books calls started

client_vars == <<circuit_state, failure_count, circuit_open_until, half_open_attempts,
                 semaphore, now, task_pc, outcome, admitted_in, resolved_in, calls, gets,
                 trials>>

scraper_vars == <<pc, db_state, books, resume, max_pages, start_page, page, current_page,
                  pages_processed, last_processed_page, hit_max_page_limit, total_books,
                  failed_catalog_pages, book_urls, has_next, seen_urls, retry_queue,
                  retry_total, exc, closed, client_open, db_connected, runs, prev_state,
                  fetch_log, processed_log, ckpt_log, retry_log, batch_log>>

\* every variable of the scraper except the two a book batch works on
scraper_rest == <<pc, db_state, resume, max_pages, start_page, page, current_page,
                  pages_processed, last_processed_page, hit_max_page_limit, total_books,
                  failed_catalog_pages, book_urls, has_next, retry_queue, retry_total, exc,
                  closed, client_open, db_connected, runs, prev_state, fetch_log,
                  processed_log, ckpt_log, retry_log, batch_log>>

batch_vars == <<b_pc, urls_to_crawl, remaining, attempt, success_count, results,
                batch_result, failed_crawls, record_calls, how_log, slept, batches>>

limiter_vars == <<requests, rate_now, downstream, in_handler, last_response, dispatched>>

scheduler_vars == <<lock, job_pc, triggers, history>>

wrapper_vars == <<r_pc, r_fn, attempt_number, r_log, r_result, r_calls>>

database_vars == <<db_client, database, conn_pc, conn_result, connect_returned, get_result, db_calls>>

staterepo_vars == <<crawler_state, state_log, state_got, state_ops>>

bookrepo_vars == <<books_coll, next_id, up_pc, up_book, up_matched, up_id, written, returned, upserts>>

changes_vars == <<changes_coll, change_request, change_response, change_calls>>

detector_vars == <<cd_pc, cd_page, cd_seen, stats, cd_tasks, cd_store, new_book_entries, field_entries, cd_started, cd_fetches, cd_outcome, cd_runs>>

book_vars == <<pb_pc, pb_book, pb_doc, pb_existing, pb_entries, pb_upserts, pb_stats, pb_result, pb_calls>>

getbook_vars == <<gb_store, gb_request, gb_response, gb_calls>>

pageloop_vars == <<pl_pc, pl_max_pages, pl_page, pl_current, pl_processed, pl_hit, pl_failed, pl_retry, pl_closed, pl_runs>>

vars == <<client_vars, scraper_vars, batch_vars, limiter_vars, scheduler_vars,
         wrapper_vars,
         database_vars,
         staterepo_vars,
         bookrepo_vars,
         changes_vars,
         detector_vars,
         book_vars,
         getbook_vars,
         pageloop_vars>>

\* what the actions of one part leave alone
not_client == <<scraper_vars, batch_vars, limiter_vars, scheduler_vars,
    wrapper_vars,
    database_vars,
    staterepo_vars,
    bookrepo_vars,
    changes_vars,
    detector_vars,
    book_vars,
    getbook_vars,
    pageloop_vars>>
not_scraper == <<client_vars, batch_vars, limiter_vars, scheduler_vars,
    wrapper_vars,
    database_vars,
    staterepo_vars,
    bookrepo_vars,
    changes_vars,
    detector_vars,
    book_vars,
    getbook_vars,
    pageloop_vars>>
not_batch == <<client_vars, scraper_rest, limiter_vars, scheduler_vars,
    wrapper_vars,
    database_vars,
    staterepo_vars,
    bookrepo_vars,
    changes_vars,
    detector_vars,
    book_vars,
    getbook_vars,
    pageloop_vars>>
not_limiter == <<client_vars, scraper_vars, batch_vars, scheduler_vars,
    wrapper_vars,
    database_vars,
    staterepo_vars,
    bookrepo_vars,
    changes_vars,
    detector_vars,
    book_vars,
    getbook_vars,
    pageloop_vars>>
not_scheduler == <<client_vars, scraper_vars, batch_vars, limiter_vars,
    wrapper_vars,
    database_vars,
    staterepo_vars,
    bookrepo_vars,
    changes_vars,
    detector_vars,
    book_vars,
    getbook_vars,
    pageloop_vars>>
not_wrapper == <<client_vars,
    scraper_vars,
    batch_vars,
    limiter_vars,
    scheduler_vars,
    database_vars,
    staterepo_vars,
    bookrepo_vars,
    changes_vars,
    detector_vars,
    book_vars,
    getbook_vars,
    pageloop_vars>>
not_database == <<client_vars,
    scraper_vars,
    batch_vars,
    limiter_vars,
    scheduler_vars,
    wrapper_vars,
    staterepo_vars,
    bookrepo_vars,
    changes_vars,
    detector_vars,
    book_vars,
    getbook_vars,
    pageloop_vars>>
not_staterepo == <<client_vars,
    scraper_vars,
    batch_vars,
    limiter_vars,
    scheduler_vars,
    wrapper_vars,
    database_vars,
    bookrepo_vars,
    changes_vars,
    detector_vars,
    book_vars,
    getbook_vars,
    pageloop_vars>>
not_bookrepo == <<client_vars,
    scraper_vars,
    batch_vars,
    limiter_vars,
    scheduler_vars,
    wrapper_vars,
    database_vars,
    staterepo_vars,
    changes_vars,
    detector_vars,
    book_vars,
    getbook_vars,
    pageloop_vars>>
not_changes == <<client_vars,
    scraper_vars,
    batch_vars,
    limiter_vars,
    scheduler_vars,
    wrapper_vars,
    database_vars,
    staterepo_vars,
    bookrepo_vars,
    detector_vars,
    book_vars,
    getbook_vars,
    pageloop_vars>>
not_detector == <<client_vars,
    scraper_vars,
    batch_vars,
    limiter_vars,
    scheduler_vars,
    wrapper_vars,
    database_vars,
    staterepo_vars,
    bookrepo_vars,
    changes_vars,
    book_vars,
    getbook_vars,
    pageloop_vars>>
not_book == <<client_vars,
    scraper_vars,
    batch_vars,
    limiter_vars,
    scheduler_vars,
    wrapper_vars,
    database_vars,
    staterepo_vars,
    bookrepo_vars,
    changes_vars,
    detector_vars,
    getbook_vars,
    pageloop_vars>>
not_getbook == <<client_vars,
    scraper_vars,
    batch_vars,
    limiter_vars,
    scheduler_vars,
    wrapper_vars,
    database_vars,
    staterepo_vars,
    bookrepo_vars,
    changes_vars,
    detector_vars,
    book_vars,
    pageloop_vars>>
not_pageloop == <<client_vars,
    scraper_vars,
    batch_vars,
    limiter_vars,
    scheduler_vars,
    wrapper_vars,
    database_vars,
    staterepo_vars,
    bookrepo_vars,
    changes_vars,
    detector_vars,
    book_vars,
    getbook_vars>>

(***************************************************************************)
(* HTTPClient                                                              *)
(***************************************************************************)
\* Python truthiness of Optional[float]: None and 0.0 are false
Truthy(x) == x # None /\ x # 0

ClientInit ==
    /\ circuit_state = "closed"
    /\ failure_count = 0
    /\ circuit_open_until = None
    /\ half_open_attempts = 0
    /\ semaphore = max_concurrent
    /\ now = 1
    /\ task_pc = [t \in Tasks |-> "idle"]
    /\ outcome = [t \in Tasks |-> "none"]
    /\ admitted_in = [t \in Tasks |-> "none"]
    /\ resolved_in = [t \in Tasks |-> "none"]
    /\ calls = 0
    /\ gets = 0
    /\ trials = 0

\* variant: the comparison with the clock is left out
OpenElapsed_NoClock == Truthy(circuit_open_until)

\* _check_circuit_ready, first branch: the breaker is open
OpenElapsed == Truthy(circuit_open_until) /\ now >= circuit_open_until

\* state of the breaker after the `if self._circuit_state == "open"` block,
\* when that block does not raise
StateAfterOpenBlock ==
    IF circuit_state = "open" /\ OpenElapsed THEN "half-open" ELSE circuit_state

AttemptsAfterOpenBlock ==
    IF circuit_state = "open" /\ OpenElapsed THEN 0 ELSE half_open_attempts

\* variant: `>` in place of `>=`
HalfOpenLimitReached_OffByOne(attempts) == attempts > circuit_half_open_max_calls

\* `if self._half_open_attempts >= self.circuit_half_open_max_calls`
HalfOpenLimitReached(attempts) == attempts >= circuit_half_open_max_calls

\* _check_circuit_ready raises "Circuit breaker open"
RaisesOpen == circuit_state = "open" /\ ~OpenElapsed

\* _check_circuit_ready raises "Circuit breaker half-open limit reached"
RaisesHalfOpenLimit ==
    /\ ~RaisesOpen
    /\ StateAfterOpenBlock = "half-open"
    /\ HalfOpenLimitReached(AttemptsAfterOpenBlock)

\* variant: the permit count is not looked at
SemaphoreFree_NoCount == \A u \in Tasks : task_pc[u] # "waiting"

\* asyncio.Semaphore.acquire returns without suspending when a permit is free
\* and no coroutine is queued
SemaphoreFree == semaphore > 0 /\ \A u \in Tasks : task_pc[u] # "waiting"

\* fetch(): start of the call up to the GET being issued (or the coroutine
\* queueing on the semaphore), or the circuit breaker rejecting the call
Fetch(t) ==
    /\ task_pc[t] = "idle"
    /\ UNCHANGED not_client
    /\ calls < MaxCalls
    /\ calls' = calls + 1
    /\ UNCHANGED <<failure_count, circuit_open_until, now, resolved_in>>
    /\ IF RaisesOpen
       THEN /\ outcome' = [outcome EXCEPT ![t] = "circuit_open"]
            /\ UNCHANGED <<circuit_state, half_open_attempts, semaphore, task_pc,
                           admitted_in, gets, trials>>
       ELSE IF RaisesHalfOpenLimit
       THEN /\ circuit_state' = StateAfterOpenBlock
            /\ half_open_attempts' = AttemptsAfterOpenBlock
            /\ trials' = IF circuit_state = "open" THEN 0 ELSE trials
            /\ outcome' = [outcome EXCEPT ![t] = "half_open_limit"]
            /\ UNCHANGED <<semaphore, task_pc, admitted_in, gets>>
       ELSE /\ circuit_state' = StateAfterOpenBlock
            /\ half_open_attempts' =
                 IF StateAfterOpenBlock = "half-open"
                 THEN AttemptsAfterOpenBlock + 1
                 ELSE AttemptsAfterOpenBlock
            /\ trials' =
                 IF StateAfterOpenBlock = "half-open"
                 THEN (IF circuit_state = "open" THEN 0 ELSE trials) + 1
                 ELSE trials
            /\ admitted_in' = [admitted_in EXCEPT ![t] = StateAfterOpenBlock]
            /\ outcome' = [outcome EXCEPT ![t] = "pending"]
            /\ IF SemaphoreFree
               THEN /\ semaphore' = semaphore - 1
                    /\ gets' = gets + 1
                    /\ task_pc' = [task_pc EXCEPT ![t] = "inflight"]
               ELSE /\ task_pc' = [task_pc EXCEPT ![t] = "waiting"]
                    /\ UNCHANGED <<semaphore, gets>>

\* `async with self.semaphore` resumes a queued coroutine, which issues its GET
AcquireSemaphore(t) ==
    /\ task_pc[t] = "waiting"
    /\ UNCHANGED not_client
    /\ semaphore > 0
    /\ semaphore' = semaphore - 1
    /\ gets' = gets + 1
    /\ task_pc' = [task_pc EXCEPT ![t] = "inflight"]
    /\ UNCHANGED <<circuit_state, failure_count, circuit_open_until, half_open_attempts,
                   now, outcome, admitted_in, resolved_in, calls, trials>>

\* variant: the open-until timestamp is not cleared
RecordSuccess_KeepsOpenUntil == <<"closed", 0, circuit_open_until, 0>>

\* _record_success: returns <<state, failure count, open-until, attempts>>
RecordSuccess == <<"closed", 0, None, 0>>

\* variant: the cooldown is not added to the clock
TripCircuit_NoCooldown(count) == <<"open", count, now, 0>>

\* _trip_circuit
TripCircuit(count) == <<"open", count, now + circuit_reset_timeout, 0>>

\* variant: `>` in place of `>=`
ThresholdReached_OffByOne(count) == count > circuit_failure_threshold

\* `elif self._failure_count >= self.circuit_failure_threshold`
ThresholdReached(count) == count >= circuit_failure_threshold

\* _record_failure
RecordFailure ==
    LET count == failure_count + 1 IN
    IF circuit_state = "half-open" THEN TripCircuit(count)
    ELSE IF ThresholdReached(count) THEN TripCircuit(count)
    ELSE <<circuit_state, count, circuit_open_until, half_open_attempts>>

\* the GET returns 2xx: _record_success, release of the semaphore, return
GetSucceeds(t) ==
    /\ task_pc[t] = "inflight"
    /\ UNCHANGED not_client
    /\ circuit_state' = RecordSuccess[1]
    /\ failure_count' = RecordSuccess[2]
    /\ circuit_open_until' = RecordSuccess[3]
    /\ half_open_attempts' = RecordSuccess[4]
    /\ semaphore' = semaphore + 1
    /\ task_pc' = [task_pc EXCEPT ![t] = "idle"]
    /\ outcome' = [outcome EXCEPT ![t] = "ok"]
    /\ resolved_in' = [resolved_in EXCEPT ![t] = circuit_state]
    /\ UNCHANGED <<now, admitted_in, calls, gets, trials>>

\* the GET ends in httpx.HTTPStatusError or httpx.RequestError:
\* _record_failure, release of the semaphore, HTTPClientError raised
GetFails(t) ==
    /\ task_pc[t] = "inflight"
    /\ UNCHANGED not_client
    /\ circuit_state' = RecordFailure[1]
    /\ failure_count' = RecordFailure[2]
    /\ circuit_open_until' = RecordFailure[3]
    /\ half_open_attempts' = RecordFailure[4]
    /\ semaphore' = semaphore + 1
    /\ task_pc' = [task_pc EXCEPT ![t] = "idle"]
    /\ outcome' = [outcome EXCEPT ![t] = "failed"]
    /\ resolved_in' = [resolved_in EXCEPT ![t] = circuit_state]
    /\ UNCHANGED <<now, admitted_in, calls, gets, trials>>

\* the monotonic clock advances
Tick ==
    /\ now < MaxTime
    /\ UNCHANGED not_client
    /\ now' = now + 1
    /\ UNCHANGED <<circuit_state, failure_count, circuit_open_until, half_open_attempts,
                   semaphore, task_pc, outcome, admitted_in, resolved_in, calls, gets,
                   trials>>

ClientNext ==
    \/ \E t \in Tasks : Fetch(t)
    \/ \E t \in Tasks : AcquireSemaphore(t)
    \/ \E t \in Tasks : GetSucceeds(t)
    \/ \E t \in Tasks : GetFails(t)
    \/ Tick

(***************************************************************************)
(* BookScraper.crawl_all_books                                             *)
(***************************************************************************)
Max(a, b) == IF a >= b THEN a ELSE b

Min(S) == CHOOSE x \in S : \A y \in S : x <= y

Range(q) == {q[i] : i \in 1..Len(q)}

\* sorted(set(...)) of a set of page numbers
RECURSIVE Sorted(_)
Sorted(S) == IF S = {} THEN <<>> ELSE <<Min(S)>> \o Sorted(S \ {Min(S)})

\* book URLs listed on catalog page n, in order: page 1 lists its book twice,
\* a later page lists the book of the page before and its own
BookUrls(n) == IF n = 1 THEN <<1, 1>> ELSE <<n - 1, n>>

\* StateManager.save_state / StateRepository.save_state: upsert of the one document
SaveState(last_page, total, status) ==
    <<[last_page |-> last_page, total_books_crawled |-> total, status |-> status]>>

\* StateRepository.clear_state
ClearState == <<>>

\* StateManager.get_last_state: the stored document or a default CrawlerState()
GetLastState ==
    IF db_state # <<>> THEN db_state[1]
    ELSE [last_page |-> 1, total_books_crawled |-> 0, status |-> "idle"]

\* variant: the saved page is used only when the last run is still marked running
StartPage_OnlyRunning(last_state) ==
    IF last_state.status = "running" THEN Max(1, last_state.last_page) ELSE 1

\* `if last_state and last_state.last_page: start_page = max(1, last_state.last_page)`
StartPage(last_state) ==
    IF last_state.last_page # 0 THEN Max(1, last_state.last_page) ELSE 1

\* variant: the checkpoint names the page the loop goes to next
CheckpointPage_Next(cur) == cur + 1

\* argument of the per-page save_state: `last_page=current_page`
CheckpointPage(cur) == cur

\* `page = current_page + 1`
NextPage(cur) == cur + 1

\* variant: the final checkpoint goes back to the start page
IdlePage_Start(last, start) == start

\* argument of the final save_state: max(last_processed_page, start_page)
IdlePage(last, start) == Max(last, start)

\* variant: the max_pages flag is not looked at
RetryPassRuns_IgnoresLimit(failed, hit) == failed # <<>>

\* `if failed_catalog_pages and not hit_max_page_limit`
RetryPassRuns(failed, hit) == failed # <<>> /\ ~hit

InCall == pc \notin {"idle", "returned", "raised"}

ScraperInit ==
    /\ pc = "idle"
    /\ db_state = <<>>
    /\ books = {}
    /\ resume = TRUE
    /\ max_pages = None
    /\ start_page = 1
    /\ page = 1
    /\ current_page = 1
    /\ pages_processed = 0
    /\ last_processed_page = 0
    /\ hit_max_page_limit = FALSE
    /\ total_books = 0
    /\ failed_catalog_pages = <<>>
    /\ book_urls = <<>>
    /\ has_next = FALSE
    /\ seen_urls = {}
    /\ retry_queue = <<>>
    /\ retry_total = 0
    /\ exc = "none"
    /\ closed = FALSE
    /\ client_open = FALSE
    /\ db_connected = FALSE
    /\ runs = 0
    /\ prev_state = <<>>
    /\ fetch_log = <<>>
    /\ processed_log = <<>>
    /\ ckpt_log = <<>>
    /\ retry_log = <<>>
    /\ batch_log = <<>>

loop_vars == <<start_page, page, current_page, pages_processed, last_processed_page,
               hit_max_page_limit, total_books, failed_catalog_pages>>
page_vars == <<book_urls, has_next>>
retry_vars == <<retry_queue, retry_total>>
args == <<resume, max_pages, runs, prev_state>>
logs == <<fetch_log, processed_log, ckpt_log, retry_log, batch_log>>
conn == <<client_open, db_connected>>

\* entry of crawl_all_books(resume=r, max_pages=m) in a fresh call frame
Enter(r, m) ==
    /\ UNCHANGED not_scraper
    /\ runs < MaxRuns
    /\ runs' = runs + 1
    /\ resume' = r
    /\ max_pages' = m
    /\ prev_state' = db_state
    /\ pc' = "initialize"
    /\ failed_catalog_pages' = <<>>
    /\ start_page' = 1 /\ page' = 1 /\ current_page' = 1
    /\ pages_processed' = 0 /\ last_processed_page' = 0
    /\ hit_max_page_limit' = FALSE /\ total_books' = 0
    /\ book_urls' = <<>> /\ has_next' = FALSE
    /\ retry_queue' = <<>> /\ retry_total' = 0
    /\ exc' = "none" /\ closed' = FALSE
    /\ client_open' = FALSE /\ db_connected' = FALSE
    /\ fetch_log' = <<>> /\ processed_log' = <<>> /\ ckpt_log' = <<>> /\ retry_log' = <<>>
    /\ batch_log' = <<>>
    /\ UNCHANGED <<db_state, books, seen_urls>>

\* crawl_all_books(resume=r, max_pages=m) is called
Call(r, m) ==
    /\ ~InCall
    /\ Enter(r, m)

\* the process is killed in the middle of a call (no `finally` runs), and
\* crawl_all_books(resume=r, max_pages=m) is called by a new process
CrashAndCall(r, m) ==
    /\ InCall
    /\ Enter(r, m)

\* initialize(): connections are set up and the per-run metadata is reset
Initialize ==
    /\ pc = "initialize"
    /\ UNCHANGED not_scraper
    /\ db_connected' = TRUE
    /\ client_open' = TRUE
    /\ seen_urls' = {}
    /\ pc' = "validate"
    /\ UNCHANGED <<db_state, books, loop_vars, page_vars, retry_vars, exc, closed, args, logs>>

\* initialize() raises: in Database.connect() (stage "connect": nothing is
\* set up) or after it, while the HTTP client is created (stage "client")
InitializeFails(stage) ==
    /\ pc = "initialize"
    /\ UNCHANGED not_scraper
    /\ db_connected' = (stage = "client")
    /\ client_open' = FALSE
    /\ exc' = "InitializeError"
    /\ pc' = "close"
    /\ UNCHANGED <<db_state, books, loop_vars, page_vars, seen_urls, retry_vars, closed, args,
                   logs>>

\* `if max_pages is not None and max_pages <= 0: raise ValueError`
Validate ==
    /\ pc = "validate"
    /\ UNCHANGED not_scraper
    /\ IF max_pages # None /\ max_pages <= 0
       THEN exc' = "ValueError" /\ pc' = "close"
       ELSE exc' = exc /\ pc' = IF resume THEN "load" ELSE "reset"
    /\ UNCHANGED <<db_state, books, loop_vars, page_vars, seen_urls, retry_vars, closed, conn, args,
                   logs>>

\* resume: `last_state = await self.state_manager.get_last_state()`
LoadState ==
    /\ pc = "load"
    /\ UNCHANGED not_scraper
    /\ start_page' = StartPage(GetLastState)
    /\ pc' = "mark_running"
    /\ UNCHANGED <<db_state, books, page, current_page, pages_processed, last_processed_page,
                   hit_max_page_limit, total_books, failed_catalog_pages, page_vars,
                   seen_urls, retry_vars, exc, closed, conn, args, logs>>

\* not resume: `await self.state_manager.reset()`
ResetState ==
    /\ pc = "reset"
    /\ UNCHANGED not_scraper
    /\ db_state' = ClearState
    /\ start_page' = 1
    /\ pc' = "mark_running"
    /\ UNCHANGED <<books, page, current_page, pages_processed, last_processed_page,
                   hit_max_page_limit, total_books, failed_catalog_pages, page_vars,
                   seen_urls, retry_vars, exc, closed, conn, args, logs>>

\* `save_state(last_page=start_page, total_books=0, status="running")` and the
\* initialisation of the loop variables
MarkRunning ==
    /\ pc = "mark_running"
    /\ UNCHANGED not_scraper
    /\ db_state' = SaveState(start_page, 0, "running")
    /\ ckpt_log' = Append(ckpt_log, db_state'[1])
    /\ total_books' = 0
    /\ page' = start_page
    /\ pages_processed' = 0
    /\ last_processed_page' = start_page - 1
    /\ hit_max_page_limit' = FALSE
    /\ pc' = "loop"
    /\ UNCHANGED <<books, start_page, current_page, failed_catalog_pages, page_vars,
                   seen_urls, retry_vars, exc, closed, conn, args, fetch_log, processed_log, batch_log,
                   retry_log>>

\* a state-store call outside the page loop's try block raises
StoreFailsOutsideLoop ==
    /\ pc \in {"load", "reset", "mark_running", "mark_idle"}
    /\ UNCHANGED not_scraper
    /\ exc' = "StoreError"
    /\ pc' = "close"
    /\ UNCHANGED <<db_state, books, loop_vars, page_vars, seen_urls, retry_vars, closed, conn, args,
                   logs>>

\* variant: one page more than max_pages is let through
MaxPagesReached_OffByOne(limit, processed) == limit # None /\ processed > limit

\* `if max_pages is not None and pages_processed >= max_pages`
MaxPagesReached(limit, processed) == limit # None /\ processed >= limit

\* top of `while True`: the max_pages test
LoopTop ==
    /\ pc = "loop"
    /\ UNCHANGED not_scraper
    /\ page <= MaxPageNo
    /\ IF MaxPagesReached(max_pages, pages_processed)
       THEN /\ hit_max_page_limit' = TRUE
            /\ pc' = "mark_idle"
            /\ UNCHANGED current_page
       ELSE /\ current_page' = page
            /\ pc' = "fetch"
            /\ UNCHANGED hit_max_page_limit
    /\ UNCHANGED <<db_state, books, start_page, page, pages_processed, last_processed_page,
                   total_books, failed_catalog_pages, page_vars, seen_urls, retry_vars, exc,
                   closed, conn, args, logs>>

\* `html = await self.client.fetch_html(catalog_url)` returns
FetchCatalog ==
    /\ pc = "fetch"
    /\ UNCHANGED not_scraper
    /\ current_page <= NumCatalogPages
    /\ fetch_log' = Append(fetch_log, current_page)
    /\ pc' = "parse"
    /\ UNCHANGED <<db_state, books, loop_vars, page_vars, seen_urls, retry_vars, exc, closed, conn,
                   args, processed_log, batch_log, ckpt_log, retry_log>>

\* fetch_html raises HTTPClientError: `except HTTPClientError`, `continue`, `finally`
FetchCatalogFails ==
    /\ pc = "fetch"
    /\ UNCHANGED not_scraper
    /\ failed_catalog_pages' = Append(failed_catalog_pages, current_page)
    /\ page' = NextPage(current_page)
    /\ pages_processed' = pages_processed + 1
    /\ last_processed_page' = current_page
    /\ pc' = "loop"
    /\ UNCHANGED <<db_state, books, start_page, current_page, hit_max_page_limit, total_books,
                   page_vars, seen_urls, retry_vars, exc, closed, conn, args, logs>>

\* parse_catalog_page returns a summary; no book URLs ends the loop
ParseCatalog(urls) ==
    /\ pc = "parse"
    /\ UNCHANGED not_scraper
    /\ book_urls' = urls
    /\ has_next' = (current_page < NumCatalogPages)
    /\ IF urls = <<>>
       THEN /\ pages_processed' = pages_processed + 1
            /\ last_processed_page' = current_page
            /\ pc' = "mark_idle"
       ELSE /\ pc' = "batch"
            /\ UNCHANGED <<pages_processed, last_processed_page>>
    /\ UNCHANGED <<db_state, books, start_page, page, current_page, hit_max_page_limit,
                   total_books, failed_catalog_pages, seen_urls, retry_vars, exc, closed, conn,
                   args, logs>>

\* variant: the seen-URL test of the filter loop is left out
RECURSIVE FilterFrom_NoDedup(_, _, _)
FilterFrom_NoDedup(urls, seen, stale) ==
    IF urls = <<>> THEN <<>>
    ELSE LET u == Head(urls)
         IN (IF u \notin books \/ u \in stale THEN <<u>> ELSE <<>>)
                \o FilterFrom_NoDedup(Tail(urls), seen \cup {u}, stale)

\* the `for url in urls` loop of _filter_urls_for_crawl: a URL already in
\* self._seen_urls is skipped; any other is added to it and kept when it is not
\* stored, or stored with a crawl_timestamp older than the recrawl interval
\* (or without one): `stale`
RECURSIVE FilterFrom(_, _, _)
FilterFrom(urls, seen, stale) ==
    IF urls = <<>> THEN <<>>
    ELSE LET u == Head(urls)
         IN IF u \in seen
            THEN FilterFrom(Tail(urls), seen, stale)
            ELSE (IF u \notin books \/ u \in stale THEN <<u>> ELSE <<>>)
                    \o FilterFrom(Tail(urls), seen \cup {u}, stale)

\* _filter_urls_for_crawl(urls): the list it returns
FilterUrls(urls, stale) == FilterFrom(urls, seen_urls, stale)

\* _crawl_books_batch(book_urls) returns: `ok` are the URLs whose crawl
\* returned a Book (fetched, parsed and upserted)
CrawlBatch(stale, ok) ==
    /\ pc = "batch"
    /\ UNCHANGED not_scraper
    /\ ok \subseteq Range(FilterUrls(book_urls, stale))
    /\ batch_log' = Append(batch_log, [urls |-> FilterUrls(book_urls, stale), ok |-> ok])
    /\ seen_urls' = seen_urls \cup Range(book_urls)
    /\ books' = books \cup ok
    /\ total_books' = total_books + Cardinality(ok)
    /\ processed_log' = Append(processed_log, [page |-> current_page, pass |-> "main"])
    /\ pc' = "checkpoint"
    /\ UNCHANGED <<db_state, start_page, page, current_page, pages_processed,
                   last_processed_page, hit_max_page_limit, failed_catalog_pages, page_vars,
                   retry_vars, exc, closed, conn, args, fetch_log, ckpt_log, retry_log>>

\* an exception that is not HTTPClientError inside the try block of the loop:
\* parse_catalog_page, get_existing_metadata_map or save_state raises
PageRaises ==
    /\ pc \in {"parse", "batch", "checkpoint"}
    /\ UNCHANGED not_scraper
    /\ exc' = IF pc = "parse" THEN "ParsingError" ELSE "StoreError"
    /\ pc' = "save_error"
    /\ UNCHANGED <<db_state, books, loop_vars, page_vars, seen_urls, retry_vars, closed, conn,
                   args, logs>>

\* `save_state(last_page=current_page, ..., status="running")`, then the
\* has_next test, `page = current_page + 1` and the `finally` block
Checkpoint ==
    /\ pc = "checkpoint"
    /\ UNCHANGED not_scraper
    /\ db_state' = SaveState(CheckpointPage(current_page), total_books, "running")
    /\ ckpt_log' = Append(ckpt_log, db_state'[1])
    /\ pages_processed' = pages_processed + 1
    /\ last_processed_page' = current_page
    /\ IF has_next
       THEN page' = NextPage(current_page) /\ pc' = "loop"
       ELSE page' = page /\ pc' = "mark_idle"
    /\ UNCHANGED <<books, start_page, current_page, hit_max_page_limit, total_books,
                   failed_catalog_pages, page_vars, seen_urls, retry_vars, exc, closed, conn, args,
                   fetch_log, processed_log, batch_log, retry_log>>

\* `except Exception`: save_state(..., status="error"), `raise`, `finally`;
\* stored = FALSE when this save_state raises itself: its exception leaves the
\* handler in place of the one being handled
SaveError(stored) ==
    /\ pc = "save_error"
    /\ UNCHANGED not_scraper
    /\ IF stored
       THEN /\ db_state' = SaveState(current_page, total_books, "error")
            /\ ckpt_log' = Append(ckpt_log, db_state'[1])
            /\ exc' = exc
       ELSE /\ UNCHANGED <<db_state, ckpt_log>>
            /\ exc' = "ErrorSaveFailed"
    /\ pages_processed' = pages_processed + 1
    /\ last_processed_page' = current_page
    /\ pc' = "close"
    /\ UNCHANGED <<books, start_page, page, current_page, hit_max_page_limit, total_books,
                   failed_catalog_pages, page_vars, seen_urls, retry_vars, closed, conn, args,
                   fetch_log, processed_log, batch_log, retry_log>>

\* "Mark as completed": save_state(max(last_processed_page, start_page), ..., "idle"),
\* then the decision whether _retry_catalog_pages runs
MarkIdle ==
    /\ pc = "mark_idle"
    /\ UNCHANGED not_scraper
    /\ db_state' = SaveState(IdlePage(last_processed_page, start_page), total_books, "idle")
    /\ ckpt_log' = Append(ckpt_log, db_state'[1])
    /\ IF RetryPassRuns(failed_catalog_pages, hit_max_page_limit)
       THEN /\ retry_queue' = Sorted(Range(failed_catalog_pages))
            /\ retry_total' = total_books
            /\ pc' = "retry"
       ELSE /\ UNCHANGED retry_vars
            /\ pc' = "close"
    /\ UNCHANGED <<books, loop_vars, page_vars, seen_urls, exc, closed, conn, args, fetch_log,
                   processed_log, batch_log, retry_log>>

\* _retry_catalog_pages: fetch_html and parse_catalog_page of the next page succeed
RetryFetch ==
    /\ pc = "retry"
    /\ UNCHANGED not_scraper
    /\ retry_queue # <<>>
    /\ Head(retry_queue) <= NumCatalogPages
    /\ retry_log' = Append(retry_log, Head(retry_queue))
    /\ \E urls \in {<<>>, BookUrls(Head(retry_queue))} : book_urls' = urls
    /\ has_next' = (Head(retry_queue) < NumCatalogPages)
    /\ pc' = "retry_batch"
    /\ UNCHANGED <<db_state, books, loop_vars, seen_urls, retry_vars, exc, closed, conn, args,
                   fetch_log, processed_log, batch_log, ckpt_log>>

\* _retry_catalog_pages: fetch_html or parse_catalog_page raises; `except Exception` logs
RetryFetchFails ==
    /\ pc = "retry"
    /\ UNCHANGED not_scraper
    /\ retry_queue # <<>>
    /\ retry_log' = Append(retry_log, Head(retry_queue))
    /\ retry_queue' = Tail(retry_queue)
    /\ UNCHANGED <<pc, db_state, books, loop_vars, page_vars, seen_urls, retry_total, exc,
                   closed, conn, args, fetch_log, processed_log, batch_log, ckpt_log>>

\* _retry_catalog_pages: _crawl_books_batch returns
RetryBatch(stale, ok) ==
    /\ pc = "retry_batch"
    /\ UNCHANGED not_scraper
    /\ ok \subseteq Range(FilterUrls(book_urls, stale))
    /\ batch_log' = Append(batch_log, [urls |-> FilterUrls(book_urls, stale), ok |-> ok])
    /\ seen_urls' = seen_urls \cup Range(book_urls)
    /\ books' = books \cup ok
    /\ retry_total' = retry_total + Cardinality(ok)
    /\ processed_log' = Append(processed_log, [page |-> Head(retry_queue), pass |-> "retry"])
    /\ pc' = "retry_save"
    /\ UNCHANGED <<db_state, loop_vars, page_vars, retry_queue, exc, closed, conn, args, fetch_log,
                   ckpt_log, retry_log>>

\* _retry_catalog_pages: save_state(last_page=page, ..., status="running")
RetrySave ==
    /\ pc = "retry_save"
    /\ UNCHANGED not_scraper
    /\ db_state' = SaveState(CheckpointPage(Head(retry_queue)), retry_total, "running")
    /\ ckpt_log' = Append(ckpt_log, db_state'[1])
    /\ retry_queue' = Tail(retry_queue)
    /\ pc' = "retry"
    /\ UNCHANGED <<books, loop_vars, page_vars, seen_urls, retry_total, exc, closed, conn, args,
                   fetch_log, processed_log, batch_log, retry_log>>

\* _retry_catalog_pages: the batch or save_state raises; `except Exception` logs
RetryRaises ==
    /\ pc \in {"retry_batch", "retry_save"}
    /\ UNCHANGED not_scraper
    /\ retry_queue' = Tail(retry_queue)
    /\ pc' = "retry"
    /\ UNCHANGED <<db_state, books, loop_vars, page_vars, seen_urls, retry_total, exc, closed, conn,
                   args, logs>>

\* _retry_catalog_pages returns; `return total_books`
RetryDone ==
    /\ pc = "retry"
    /\ UNCHANGED not_scraper
    /\ retry_queue = <<>>
    /\ pc' = "close"
    /\ UNCHANGED <<db_state, books, loop_vars, page_vars, seen_urls, retry_vars, exc, closed, conn,
                   args, logs>>

\* variant: the database is disconnected only when an HTTP client was closed
AfterDisconnect_OnlyWithClient(had_client, connected) == connected /\ ~had_client

\* Database.disconnect(): `cls.client = None`, whatever close() did before
AfterDisconnect(had_client, connected) == FALSE

\* outer `finally: await self.close()`, then the call returns or raises
Close ==
    /\ pc = "close"
    /\ UNCHANGED not_scraper
    /\ closed' = TRUE
    /\ client_open' = FALSE
    /\ db_connected' = AfterDisconnect(client_open, db_connected)
    /\ pc' = IF exc = "none" THEN "returned" ELSE "raised"
    /\ UNCHANGED <<db_state, books, loop_vars, page_vars, seen_urls, retry_vars, exc, args,
                   logs>>

MaxPagesArgs == {None} \cup (0..MaxPagesArg)

ScraperNext ==
    \/ \E r \in BOOLEAN, m \in MaxPagesArgs : Call(r, m)
    \/ Initialize
    \/ \E stage \in {"connect", "client"} : InitializeFails(stage)
    \/ Validate
    \/ LoadState
    \/ ResetState
    \/ MarkRunning
    \/ StoreFailsOutsideLoop
    \/ LoopTop
    \/ FetchCatalog
    \/ FetchCatalogFails
    \/ \E urls \in {<<>>, BookUrls(current_page)} : ParseCatalog(urls)
    \/ \E stale \in SUBSET Range(book_urls), ok \in SUBSET Range(book_urls) : CrawlBatch(stale, ok)
    \/ PageRaises
    \/ Checkpoint
    \/ \E stored \in BOOLEAN : SaveError(stored)
    \/ MarkIdle
    \/ RetryFetch
    \/ RetryFetchFails
    \/ \E stale \in SUBSET Range(book_urls), ok \in SUBSET Range(book_urls) : RetryBatch(stale, ok)
    \/ RetrySave
    \/ RetryRaises
    \/ RetryDone
    \/ Close
    \/ \E r \in BOOLEAN, m \in MaxPagesArgs : CrashAndCall(r, m)

(***************************************************************************)
(* BookScraper._crawl_books_batch and _crawl_single_book                   *)
(***************************************************************************)
\* no entry stored for a URL in the failed_crawls collection
NoEntry == [stage |-> "none", error |-> "none"]

\* book_urls lists a catalog page can hand to _crawl_books_batch
RECURSIVE UrlListsOfLen(_)
UrlListsOfLen(n) ==
    IF n = 0 THEN {<<>>}
    ELSE {Append(q, u) : q \in UrlListsOfLen(n - 1), u \in Urls}

UrlLists == UNION {UrlListsOfLen(n) : n \in 0..MaxBatchLen}

\* ways one _crawl_single_book call can go: everything works ("ok"),
\* fetch_html raises HTTPClientError ("http"), parse_book_page raises
\* ParsingError ("parse"), upsert_book raises ("upsert"), or anything else
\* raises before the page was fetched ("other")
Hows == {"ok", "http", "parse", "upsert", "other"}

RECURSIVE Pow2(_)
Pow2(n) == IF n = 0 THEN 1 ELSE 2 * Pow2(n - 1)

\* variant: a store failure during upsert leaves _crawl_single_book as an exception
SingleBookResult_UpsertRaises(how) ==
    IF how = "ok" THEN "Book" ELSE IF how = "upsert" THEN "Exception" ELSE "None"

\* what _crawl_single_book hands to gather: `return book` at the end of the
\* try block, `return None` at the end of each of the three handlers
SingleBookResult(how) == IF how = "ok" THEN "Book" ELSE "None"

\* stage of the record_failed_crawl call of the handler that catches the failure
RecordedStage(how) ==
    CASE how = "parse" -> "parse"
      [] how \in {"upsert", "other"} -> "unknown"
      [] OTHER -> "none"

\* `error=str(e)` of that call
RecordedError(how) == IF how = "parse" THEN "ParsingError" ELSE "Exception"

\* the `for url, result in zip(remaining, results)` loop: URLs appended to next_remaining
RECURSIVE NextRemaining(_, _, _)
NextRemaining(rem, res, att) ==
    IF rem = <<>> THEN <<>>
    ELSE (IF Head(res) = "Exception" /\ att < max_attempts THEN <<Head(rem)>> ELSE <<>>)
            \o NextRemaining(Tail(rem), Tail(res), att)

\* the same loop: number of results that are a Book
RECURSIVE Successes(_)
Successes(res) ==
    IF res = <<>> THEN 0
    ELSE (IF Head(res) = "Book" THEN 1 ELSE 0) + Successes(Tail(res))

Pending(q) == [i \in 1..Len(q) |-> "pending"]

BatchInit ==
    /\ b_pc = "idle"
    /\ urls_to_crawl = <<>>
    /\ remaining = <<>>
    /\ attempt = 1
    /\ success_count = 0
    /\ results = <<>>
    /\ batch_result = None
    /\ failed_crawls = [u \in Urls |-> NoEntry]
    /\ record_calls = {}
    /\ how_log = [u \in Urls |-> <<>>]
    /\ slept = <<>>
    /\ batches = 0

\* _crawl_books_batch(urls) is called: the filter, the early return when it
\* keeps nothing, and the initialisation of the attempt loop
BatchCall(urls, stale) ==
    /\ b_pc \in {"idle", "done", "raised"}
    /\ batches < MaxBatches
    /\ UNCHANGED not_batch
    /\ batches' = batches + 1
    /\ urls_to_crawl' = FilterUrls(urls, stale)
    /\ seen_urls' = seen_urls \cup Range(urls)
    /\ remaining' = urls_to_crawl'
    /\ results' = Pending(urls_to_crawl')
    /\ attempt' = 1
    /\ success_count' = 0
    /\ record_calls' = {}
    /\ how_log' = [u \in Urls |-> <<>>]
    /\ slept' = <<>>
    /\ IF urls_to_crawl' = <<>>
       THEN b_pc' = "done" /\ batch_result' = 0
       ELSE b_pc' = "gather" /\ batch_result' = None
    /\ UNCHANGED <<books, failed_crawls>>

\* _crawl_books_batch(urls) is called and get_existing_metadata_map raises
\* inside the filter: the exception leaves the batch
BatchCallRaises(urls) ==
    /\ b_pc \in {"idle", "done", "raised"}
    /\ batches < MaxBatches
    /\ urls # <<>>
    /\ UNCHANGED not_batch
    /\ batches' = batches + 1
    /\ urls_to_crawl' = <<>>
    /\ remaining' = <<>>
    /\ results' = <<>>
    /\ attempt' = 1
    /\ success_count' = 0
    /\ record_calls' = {}
    /\ how_log' = [u \in Urls |-> <<>>]
    /\ slept' = <<>>
    /\ batch_result' = None
    /\ b_pc' = "raised"
    /\ UNCHANGED <<books, seen_urls, failed_crawls>>

\* the _crawl_single_book coroutine of remaining[i] runs to its end; `stored`
\* tells whether record_failed_crawl could write its entry (it swallows its
\* own failures)
CrawlSingleBook(i, how, stored) ==
    /\ b_pc = "gather"
    /\ i \in 1..Len(remaining)
    /\ results[i] = "pending"
    /\ UNCHANGED not_batch
    /\ LET url == remaining[i]
           stage == RecordedStage(how)
           entry == [stage |-> stage, error |-> RecordedError(how)]
       IN /\ results' = [results EXCEPT ![i] = SingleBookResult(how)]
          /\ books' = IF how = "ok" THEN books \cup {url} ELSE books
          /\ how_log' = [how_log EXCEPT ![url] = Append(@, how)]
          /\ record_calls' =
                IF stage = "none" THEN record_calls
                ELSE record_calls \cup {[url |-> url, attempt |-> attempt, stage |-> stage,
                                         error |-> RecordedError(how)]}
          /\ failed_crawls' =
                IF stage # "none" /\ stored THEN [failed_crawls EXCEPT ![url] = entry]
                ELSE failed_crawls
    /\ UNCHANGED <<b_pc, urls_to_crawl, remaining, attempt, success_count, batch_result,
                   slept, batches, seen_urls>>

\* gather has returned: the result loop, the backoff sleep, `remaining =
\* next_remaining`, `attempt += 1` and the test of the while loop
BatchCollect ==
    /\ b_pc = "gather"
    /\ \A i \in 1..Len(results) : results[i] # "pending"
    /\ UNCHANGED not_batch
    /\ LET next_remaining == NextRemaining(remaining, results, attempt)
       IN /\ success_count' = success_count + Successes(results)
          /\ slept' = IF next_remaining # <<>> THEN Append(slept, Pow2(attempt)) ELSE slept
          /\ remaining' = next_remaining
          /\ attempt' = attempt + 1
          /\ results' = Pending(next_remaining)
          /\ b_pc' = IF next_remaining # <<>> /\ attempt + 1 <= max_attempts
                     THEN "gather" ELSE "record"
    /\ UNCHANGED <<urls_to_crawl, batch_result, failed_crawls, record_calls, how_log,
                   batches, books, seen_urls>>

\* after the loop: record_failed_crawl(stage="fetch") for what is left in
\* `remaining`, then `return success_count`
BatchReturn(stored) ==
    /\ b_pc = "record"
    /\ UNCHANGED not_batch
    /\ record_calls' = record_calls \cup
          {[url |-> u, attempt |-> attempt, stage |-> "fetch",
            error |-> "Max crawl attempts exceeded"] : u \in Range(remaining)}
    /\ failed_crawls' =
          [u \in Urls |->
              IF stored /\ u \in Range(remaining)
              THEN [stage |-> "fetch", error |-> "Max crawl attempts exceeded"]
              ELSE failed_crawls[u]]
    /\ batch_result' = success_count
    /\ b_pc' = "done"
    /\ UNCHANGED <<urls_to_crawl, remaining, attempt, success_count, results, how_log, slept,
                   batches, books, seen_urls>>

BatchNext ==
    \/ \E urls \in UrlLists, stale \in SUBSET Urls : BatchCall(urls, stale)
    \/ \E urls \in UrlLists : BatchCallRaises(urls)
    \/ \E i \in 1..MaxBatchLen, how \in Hows, stored \in BOOLEAN : CrawlSingleBook(i, how, stored)
    \/ BatchCollect
    \/ \E stored \in BOOLEAN : BatchReturn(stored)

(***************************************************************************)
(* RateLimitMiddleware                                                     *)
(***************************************************************************)
\* variant: old timestamps are never dropped
CleanOld_NoExpiry(times, t) == times

\* "Clean old requests": the timestamps with `req_time > hour_ago`
CleanOld(times, t) == SelectSeq(times, LAMBDA req_time : req_time > t - RateWindow)

\* variant: one request more than the limit is let through
LimitReached_OffByOne(times) == Len(times) > requests_per_hour

\* `if len(self.requests[api_key]) >= self.requests_per_hour`
LimitReached(times) == Len(times) >= requests_per_hour

\* the HTTPException dispatch raises for a rejected request
TooManyRequests(key) ==
    [key |-> key, status |-> 429, detail |-> "Rate limit exceeded", retry_after |-> "3600"]

\* the response of the downstream handler
Passed(key) == [key |-> key, status |-> 200, detail |-> "", retry_after |-> ""]

LimiterInit ==
    /\ requests = [k \in Keys |-> <<>>]
    /\ rate_now = 1
    /\ downstream = [k \in Keys |-> <<>>]
    /\ in_handler = [k \in Keys \cup {NoKey} |-> 0]
    /\ last_response = Passed(NoKey)
    /\ dispatched = 0

\* dispatch(request) with an API key: _check_rate_limit (no await inside),
\* then either the 429 or the start of call_next
Dispatch(key) ==
    /\ dispatched < MaxRequests
    /\ UNCHANGED not_limiter
    /\ dispatched' = dispatched + 1
    /\ LET cleaned == CleanOld(requests[key], rate_now)
       IN IF LimitReached(cleaned)
          THEN /\ requests' = [requests EXCEPT ![key] = cleaned]
               /\ last_response' = TooManyRequests(key)
               /\ UNCHANGED <<downstream, in_handler>>
          ELSE /\ requests' = [requests EXCEPT ![key] = Append(cleaned, rate_now)]
               /\ downstream' = [downstream EXCEPT ![key] = Append(@, rate_now)]
               /\ in_handler' = [in_handler EXCEPT ![key] = @ + 1]
               /\ UNCHANGED last_response
    /\ UNCHANGED rate_now

\* dispatch(request) without an API key: straight to call_next
DispatchWithoutKey ==
    /\ dispatched < MaxRequests
    /\ UNCHANGED not_limiter
    /\ dispatched' = dispatched + 1
    /\ in_handler' = [in_handler EXCEPT ![NoKey] = @ + 1]
    /\ UNCHANGED <<requests, rate_now, downstream, last_response>>

\* `response = await call_next(request)` returns and dispatch returns it
HandlerReturns(key) ==
    /\ in_handler[key] > 0
    /\ UNCHANGED not_limiter
    /\ in_handler' = [in_handler EXCEPT ![key] = @ - 1]
    /\ last_response' = Passed(key)
    /\ UNCHANGED <<requests, rate_now, downstream, dispatched>>

\* time.time() advances
RateTick ==
    /\ rate_now < MaxRateTime
    /\ UNCHANGED not_limiter
    /\ rate_now' = rate_now + 1
    /\ UNCHANGED <<requests, downstream, in_handler, last_response, dispatched>>

LimiterNext ==
    \/ \E key \in Keys : Dispatch(key)
    \/ DispatchWithoutKey
    \/ \E key \in Keys \cup {NoKey} : HandlerReturns(key)
    \/ RateTick

(***************************************************************************)
(* TaskScheduler.run_daily_crawl                                           *)
(***************************************************************************)
\* variant: the job body is entered whether or not the lock is held
Skips_Never(locked) == FALSE

\* `if self.lock.locked(): ... return`
Skips(locked) == locked

\* variant: a failure while sending the alert leaves _send_alert
Propagates_SendFailure(stage) == stage = "alert"

\* whether an exception raised in a stage leaves run_daily_crawl: "detect"
\* and "report" are inside `try ... except Exception` of run_daily_crawl,
\* "alert" (the SMTP calls) inside `try ... except Exception` of _send_alert
Propagates(stage) == FALSE

\* a finished run_daily_crawl call
Ended(job, how, alert, raised) ==
    [job |-> job, outcome |-> how, alert |-> alert, raised |-> raised]

SchedulerInit ==
    /\ lock = FALSE
    /\ job_pc = [j \in Jobs |-> "idle"]
    /\ triggers = 0
    /\ history = <<>>

\* the trigger fires and run_daily_crawl starts: the locked() test, the
\* return of a skipped call, or `async with self.lock` (the lock is free, so
\* acquiring it does not suspend)
RunDailyCrawl(j) ==
    /\ job_pc[j] = "idle"
    /\ triggers < MaxTriggers
    /\ UNCHANGED not_scheduler
    /\ triggers' = triggers + 1
    /\ IF Skips(lock)
       THEN /\ history' = Append(history, Ended(j, "skipped", "none", FALSE))
            /\ UNCHANGED <<lock, job_pc>>
       ELSE /\ lock' = TRUE
            /\ job_pc' = [job_pc EXCEPT ![j] = "detect"]
            /\ UNCHANGED history

\* the `except Exception` handler of run_daily_crawl: with alerts enabled
\* _send_alert is awaited, otherwise the body ends and the lock is released
Handle(j, alerts, stage) ==
    IF alerts
    THEN /\ job_pc' = [job_pc EXCEPT ![j] = "alert"]
         /\ UNCHANGED <<lock, history>>
    ELSE /\ job_pc' = [job_pc EXCEPT ![j] = "idle"]
         /\ lock' = FALSE
         /\ history' = Append(history, Ended(j, "failed", "none", Propagates(stage)))

\* `stats = await detector.detect_changes()` returns (ok) or raises
DetectChanges(j, ok, alerts) ==
    /\ job_pc[j] = "detect"
    /\ UNCHANGED not_scheduler
    /\ IF ok
       THEN /\ job_pc' = [job_pc EXCEPT ![j] = "report"]
            /\ UNCHANGED <<lock, history>>
       ELSE Handle(j, alerts, "detect")
    /\ UNCHANGED triggers

\* `await reporter.generate_daily_report(stats)` returns (ok) or raises
GenerateReport(j, ok, alerts) ==
    /\ job_pc[j] = "report"
    /\ UNCHANGED not_scheduler
    /\ IF ok
       THEN /\ job_pc' = [job_pc EXCEPT ![j] = "idle"]
            /\ lock' = FALSE
            /\ history' = Append(history, Ended(j, "completed", "none", FALSE))
       ELSE Handle(j, alerts, "report")
    /\ UNCHANGED triggers

\* _send_alert: no recipient configured, the mail is sent, or sending fails;
\* then the body ends and `async with` releases the lock
SendAlert(j, how) ==
    /\ job_pc[j] = "alert"
    /\ UNCHANGED not_scheduler
    /\ job_pc' = [job_pc EXCEPT ![j] = "idle"]
    /\ lock' = FALSE
    /\ history' = Append(history,
                         Ended(j, "failed", how, how = "send_failed" /\ Propagates("alert")))
    /\ UNCHANGED triggers

SchedulerNext ==
    \/ \E j \in Jobs : RunDailyCrawl(j)
    \/ \E j \in Jobs, ok \in BOOLEAN, alerts \in BOOLEAN : DetectChanges(j, ok, alerts)
    \/ \E j \in Jobs, ok \in BOOLEAN, alerts \in BOOLEAN : GenerateReport(j, ok, alerts)
    \/ \E j \in Jobs, how \in {"no_recipient", "sent", "send_failed"} : SendAlert(j, how)

(***************************************************************************)
(* retry_on_http_error                                                     *)
(***************************************************************************)
\* the exception classes of httpx an operation can raise
HttpxErrors == {"ConnectError", "TimeoutException", "HTTPStatusError"}

\* outcomes of one invocation of an arbitrary wrapped operation
OpOutcomes == {"ok", "ValueError"} \cup HttpxErrors

\* outcomes of HTTPClient.fetch before a GET is issued and of the GET itself
GetOutcomes == {"ok", "circuit_open"} \cup HttpxErrors

\* what one invocation of HTTPClient.fetch returns or raises: _check_circuit_ready
\* raises HTTPClientError, and both except clauses around the GET raise
\* HTTPClientError from the httpx exception
FetchRaises(get) == IF get = "ok" THEN "ok" ELSE "HTTPClientError"

\* variant: every exception is retried
Retryable_Any(raised) == raised # "ok"

\* retry_if_exception_type((httpx.HTTPError, httpx.TimeoutException,
\* httpx.ConnectError, httpx.NetworkError))
Retryable(raised) == raised \in HttpxErrors

\* stop_after_attempt(max_attempts)
StopAfterAttempt(n) == n >= max_retries

RetryInit ==
    /\ r_pc = "idle"
    /\ r_fn = "none"
    /\ attempt_number = 0
    /\ r_log = <<>>
    /\ r_result = "none"
    /\ r_calls = 0

\* the wrapper is called
RetryCall(fn) ==
    /\ r_pc = "idle"
    /\ UNCHANGED not_wrapper
    /\ r_calls < MaxRetryCalls
    /\ r_calls' = r_calls + 1
    /\ r_fn' = fn
    /\ attempt_number' = 1
    /\ r_log' = <<>>
    /\ r_result' = "none"
    /\ r_pc' = "calling"

\* one invocation of the wrapped function ends, and tenacity decides: return
\* the result, sleep before the next attempt, or re-raise (reraise=True)
Invoke(get, raised) ==
    /\ r_pc = "calling"
    /\ UNCHANGED not_wrapper
    /\ r_log' = Append(r_log, [get |-> get, raised |-> raised])
    /\ IF raised # "ok" /\ Retryable(raised) /\ ~StopAfterAttempt(attempt_number)
       THEN /\ r_pc' = "sleeping"
            /\ UNCHANGED r_result
       ELSE /\ r_pc' = "idle"
            /\ r_result' = raised
    /\ UNCHANGED <<r_fn, attempt_number, r_calls>>

\* an arbitrary wrapped operation is invoked
InvokeOperation(raised) ==
    /\ r_fn = "op"
    /\ Invoke("none", raised)

\* HTTPClient.fetch is invoked
InvokeFetch(get) ==
    /\ r_fn = "fetch"
    /\ Invoke(get, FetchRaises(get))

\* the backoff sleep ends and the next attempt starts
NextAttempt ==
    /\ r_pc = "sleeping"
    /\ UNCHANGED not_wrapper
    /\ attempt_number' = attempt_number + 1
    /\ r_pc' = "calling"
    /\ UNCHANGED <<r_fn, r_log, r_result, r_calls>>

RetryNext ==
    \/ \E fn \in {"op", "fetch"} : RetryCall(fn)
    \/ \E raised \in OpOutcomes : InvokeOperation(raised)
    \/ \E get \in GetOutcomes : InvokeFetch(get)
    \/ NextAttempt

(***************************************************************************)
(* Database                                                                *)
(***************************************************************************)
\* the except clause of connect(): <<client is set, database is set>>
AfterFailedConnect == <<FALSE, FALSE>>

\* get_database() returns the handle; it raises RuntimeError otherwise
GetDatabaseReturns == database

DatabaseInit ==
    /\ db_client = FALSE
    /\ database = FALSE
    /\ conn_pc = [c \in Callers |-> "idle"]
    /\ conn_result = [c \in Callers |-> "none"]
    /\ connect_returned = FALSE
    /\ get_result = [called |-> FALSE, returned |-> FALSE, after_connect |-> FALSE]
    /\ db_calls = 0

\* connect() while a client is set: returns at once
ConnectNoOp(c) ==
    /\ conn_pc[c] = "idle"
    /\ UNCHANGED not_database
    /\ db_calls < MaxDbCalls
    /\ db_client
    /\ db_calls' = db_calls + 1
    /\ conn_result' = [conn_result EXCEPT ![c] = "returned"]
    /\ connect_returned' = TRUE
    /\ UNCHANGED <<db_client, database, conn_pc, get_result>>

\* connect() while no client is set, up to the ping being awaited; or up to
\* the constructor of the client raising
Connect(c, built) ==
    /\ conn_pc[c] = "idle"
    /\ UNCHANGED not_database
    /\ db_calls < MaxDbCalls
    /\ ~db_client
    /\ db_calls' = db_calls + 1
    /\ IF built
       THEN /\ db_client' = TRUE
            /\ database' = TRUE
            /\ conn_pc' = [conn_pc EXCEPT ![c] = "ping"]
            /\ conn_result' = [conn_result EXCEPT ![c] = "none"]
       ELSE /\ db_client' = AfterFailedConnect[1]
            /\ database' = AfterFailedConnect[2]
            /\ conn_result' = [conn_result EXCEPT ![c] = "raised"]
            /\ UNCHANGED conn_pc
    /\ UNCHANGED <<connect_returned, get_result>>

\* the ping answers: connect() returns
PingSucceeds(c) ==
    /\ conn_pc[c] = "ping"
    /\ UNCHANGED not_database
    /\ conn_pc' = [conn_pc EXCEPT ![c] = "idle"]
    /\ conn_result' = [conn_result EXCEPT ![c] = "returned"]
    /\ connect_returned' = TRUE
    /\ UNCHANGED <<db_client, database, get_result, db_calls>>

\* the ping raises: client and database are reset and the error is re-raised
PingFails(c) ==
    /\ conn_pc[c] = "ping"
    /\ UNCHANGED not_database
    /\ conn_pc' = [conn_pc EXCEPT ![c] = "idle"]
    /\ conn_result' = [conn_result EXCEPT ![c] = "raised"]
    /\ db_client' = AfterFailedConnect[1]
    /\ database' = AfterFailedConnect[2]
    /\ UNCHANGED <<connect_returned, get_result, db_calls>>

\* disconnect()
Disconnect ==
    /\ db_calls < MaxDbCalls
    /\ UNCHANGED not_database
    /\ db_calls' = db_calls + 1
    /\ db_client' = FALSE
    /\ database' = FALSE
    /\ connect_returned' = FALSE
    /\ UNCHANGED <<conn_pc, conn_result, get_result>>

\* get_database()
GetDatabase ==
    /\ db_calls < MaxDbCalls
    /\ UNCHANGED not_database
    /\ db_calls' = db_calls + 1
    /\ get_result' = [called |-> TRUE, returned |-> GetDatabaseReturns,
                      after_connect |-> connect_returned]
    /\ UNCHANGED <<db_client, database, conn_pc, conn_result, connect_returned>>

DatabaseNext ==
    \/ \E c \in Callers : ConnectNoOp(c)
    \/ \E c \in Callers, built \in BOOLEAN : Connect(c, built)
    \/ \E c \in Callers : PingSucceeds(c)
    \/ \E c \in Callers : PingFails(c)
    \/ Disconnect
    \/ GetDatabase

(***************************************************************************)
(* StateRepository                                                         *)
(***************************************************************************)
\* the fixed key of the record
StateKey == "crawler_state"

\* the value that stands for a field a document does not have
Unset(f) == IF f \in {"last_page", "total_books_crawled"} THEN None ELSE "unset"

\* the values save_state and update_last_page are called with
StatePages == 1..MaxStatePage
StateTotals == {0, 1}
StateStatuses == {"running", "idle"}

\* update_one({"_id": key}, {"$set": fields}, upsert=True) on a collection:
\* `fields` maps every field to its new value or to Unset
SetFields(doc, fields) ==
    [f \in DOMAIN doc |-> IF f \in DOMAIN fields /\ fields[f] # Unset(f) THEN fields[f] ELSE doc[f]]

\* variant: upsert=False
UpdateOne_NoUpsert(coll, key, fields) ==
    {IF doc.id = key THEN SetFields(doc, fields) ELSE doc : doc \in coll}

UpdateOne(coll, key, fields) ==
    IF \E doc \in coll : doc.id = key
    THEN {IF doc.id = key THEN SetFields(doc, fields) ELSE doc : doc \in coll}
    ELSE coll \cup {[fields EXCEPT !.id = key]}

\* delete_one({"_id": key})
DeleteOne(coll, key) == {doc \in coll : doc.id # key}

\* the document save_state writes: state.model_dump()
StateDict(last_page, total, status) ==
    [id |-> Unset("id"), last_page |-> last_page, total_books_crawled |-> total,
     status |-> status]

\* the fields update_last_page writes
LastPageOnly(last_page) ==
    [id |-> Unset("id"), last_page |-> last_page,
     total_books_crawled |-> Unset("total_books_crawled"), status |-> Unset("status")]

\* CrawlerState(): the defaults of the model
DefaultState == [last_page |-> 1, total_books_crawled |-> 0, status |-> "idle"]

\* CrawlerState(**doc): fields the document lacks take their defaults
FromDocument(doc) ==
    [f \in DOMAIN DefaultState |-> IF doc[f] = Unset(f) THEN DefaultState[f] ELSE doc[f]]

\* find_one({"_id": key}) followed by `if doc: return CrawlerState(**doc)`
FindState(coll) ==
    IF \E doc \in coll : doc.id = StateKey
    THEN [found |-> TRUE,
          state |-> FromDocument(CHOOSE doc \in coll : doc.id = StateKey)]
    ELSE [found |-> FALSE, state |-> DefaultState]

StateRepositoryInit ==
    /\ crawler_state = {}
    /\ state_log = <<>>
    /\ state_got = [called |-> FALSE, result |-> [found |-> FALSE, state |-> DefaultState],
                    log |-> <<>>]
    /\ state_ops = 0

\* save_state(state)
RepoSaveState(last_page, total, status) ==
    /\ state_ops < MaxStateOps
    /\ UNCHANGED not_staterepo
    /\ state_ops' = state_ops + 1
    /\ crawler_state' = UpdateOne(crawler_state, StateKey, StateDict(last_page, total, status))
    /\ state_log' = Append(state_log, [op |-> "save", state |->
                       [last_page |-> last_page, total_books_crawled |-> total,
                        status |-> status]])
    /\ UNCHANGED state_got

\* update_last_page(page)
RepoUpdateLastPage(last_page) ==
    /\ state_ops < MaxStateOps
    /\ UNCHANGED not_staterepo
    /\ state_ops' = state_ops + 1
    /\ crawler_state' = UpdateOne(crawler_state, StateKey, LastPageOnly(last_page))
    /\ state_log' = Append(state_log, [op |-> "update",
                       state |-> [DefaultState EXCEPT !.last_page = last_page]])
    /\ UNCHANGED state_got

\* clear_state()
RepoClearState ==
    /\ state_ops < MaxStateOps
    /\ UNCHANGED not_staterepo
    /\ state_ops' = state_ops + 1
    /\ crawler_state' = DeleteOne(crawler_state, StateKey)
    /\ state_log' = <<>>
    /\ UNCHANGED state_got

\* get_last_state()
RepoGetLastState ==
    /\ state_ops < MaxStateOps
    /\ UNCHANGED not_staterepo
    /\ state_ops' = state_ops + 1
    /\ state_got' = [called |-> TRUE, result |-> FindState(crawler_state),
                     log |-> state_log]
    /\ UNCHANGED <<crawler_state, state_log>>

StateRepositoryNext ==
    \/ \E p \in StatePages, n \in StateTotals, s \in StateStatuses : RepoSaveState(p, n, s)
    \/ \E p \in StatePages : RepoUpdateLastPage(p)
    \/ RepoClearState
    \/ RepoGetLastState

(***************************************************************************)
(* BookRepository.upsert_book                                              *)
(***************************************************************************)
\* the field values of a book, other than its source_url
BookValues == {1, 2}

\* variant: the books collection has no unique index
UniqueSourceUrl_Absent == FALSE

\* create_indexes: the unique index "source_url_unique" on books.source_url
UniqueSourceUrl == TRUE

\* find_one({"source_url": url}) finds a document
Stored(coll, url) == \E doc \in coll : doc.source_url = url

\* the documents find_one({"source_url": url}) can return
DocsOf(coll, url) == {doc \in coll : doc.source_url = url}

\* {"$set": book_dict} applied to the document the filter matched
SetBook(coll, url, value) ==
    {IF doc.source_url = url THEN [doc EXCEPT !.value = value] ELSE doc : doc \in coll}

BookRepositoryInit ==
    /\ books_coll = {}
    /\ next_id = 1
    /\ up_pc = [w \in Writers |-> "idle"]
    /\ up_book = [w \in Writers |-> [source_url |-> 1, value |-> 1]]
    /\ up_matched = [w \in Writers |-> FALSE]
    /\ up_id = [w \in Writers |-> None]
    /\ written = [u \in Urls |-> None]
    /\ returned = <<>>
    /\ upserts = 0

\* upsert_book(book) up to the first find_one (its result is only logged)
UpsertBook(w, url, value) ==
    /\ up_pc[w] = "idle"
    /\ UNCHANGED not_bookrepo
    /\ upserts < MaxUpserts
    /\ upserts' = upserts + 1
    /\ up_book' = [up_book EXCEPT ![w] = [source_url |-> url, value |-> value]]
    /\ up_id' = [up_id EXCEPT ![w] = None]
    /\ up_pc' = [up_pc EXCEPT ![w] = "update"]
    /\ UNCHANGED <<books_coll, next_id, up_matched, written, returned>>

\* update_one(..., upsert=True) reaches the store, which evaluates the filter
UpdateOneMatches(w) ==
    /\ up_pc[w] = "update"
    /\ UNCHANGED not_bookrepo
    /\ up_matched' = [up_matched EXCEPT ![w] = Stored(books_coll, up_book[w].source_url)]
    /\ up_pc' = [up_pc EXCEPT ![w] = "write"]
    /\ UNCHANGED <<books_coll, next_id, up_book, up_id, written, returned, upserts>>

\* the store applies the update: it modifies the matched document, or inserts
\* a new one when the filter matched nothing; an insert that meets a document
\* another writer inserted in the meantime violates the unique index, and the
\* store then applies the update to that document (retried = TRUE) or fails
\* the operation with DuplicateKeyError, which upsert_book re-raises
UpdateOneWrites(w, retried) ==
    LET url == up_book[w].source_url
        value == up_book[w].value
        insert == ~up_matched[w]
        conflict == insert /\ Stored(books_coll, url) /\ UniqueSourceUrl
    IN
    /\ up_pc[w] = "write"
    /\ UNCHANGED not_bookrepo
    /\ conflict \/ retried
    /\ IF conflict /\ ~retried
       THEN /\ up_pc' = [up_pc EXCEPT ![w] = "idle"]
            /\ UNCHANGED <<books_coll, next_id, up_id, written>>
       ELSE IF insert /\ ~conflict
       THEN /\ books_coll' =
                 books_coll \cup {[id |-> next_id, source_url |-> url, value |-> value]}
            /\ next_id' = next_id + 1
            /\ up_id' = [up_id EXCEPT ![w] = next_id]
            /\ written' = [written EXCEPT ![url] = value]
            /\ up_pc' = [up_pc EXCEPT ![w] = "upserted"]
       ELSE /\ books_coll' = SetBook(books_coll, url, value)
            /\ written' = [written EXCEPT ![url] = value]
            /\ up_pc' = [up_pc EXCEPT ![w] = "find"]
            /\ UNCHANGED <<next_id, up_id>>
    /\ UNCHANGED <<up_book, up_matched, returned, upserts>>

\* `if result.upserted_id: book_id = str(result.upserted_id)` and return
ReturnUpsertedId(w) ==
    /\ up_pc[w] = "upserted"
    /\ UNCHANGED not_bookrepo
    /\ returned' = Append(returned, [source_url |-> up_book[w].source_url, id |-> up_id[w]])
    /\ up_pc' = [up_pc EXCEPT ![w] = "idle"]
    /\ UNCHANGED <<books_coll, next_id, up_book, up_matched, up_id, written, upserts>>

\* `else: doc = find_one(...); book_id = str(doc["_id"])` and return
ReturnFoundId(w) ==
    /\ up_pc[w] = "find"
    /\ UNCHANGED not_bookrepo
    /\ \E doc \in DocsOf(books_coll, up_book[w].source_url) :
         returned' = Append(returned, [source_url |-> up_book[w].source_url, id |-> doc.id])
    /\ up_pc' = [up_pc EXCEPT ![w] = "idle"]
    /\ UNCHANGED <<books_coll, next_id, up_book, up_matched, up_id, written, upserts>>

BookRepositoryNext ==
    \/ \E w \in Writers, url \in Urls, value \in BookValues : UpsertBook(w, url, value)
    \/ \E w \in Writers : UpdateOneMatches(w)
    \/ \E w \in Writers, retried \in BOOLEAN : UpdateOneWrites(w, retried)
    \/ \E w \in Writers : ReturnUpsertedId(w)
    \/ \E w \in Writers : ReturnFoundId(w)

(***************************************************************************)
(* GET /changes                                                            *)
(***************************************************************************)
\* change types the change detector logs (two of them)
ChangeTypes == {"new_book", "price_change"}

\* no change_type parameter
NoType == "none"

\* a list in reverse order
RECURSIVE Reverse(_)
Reverse(s) == IF s = <<>> THEN <<>> ELSE Append(Reverse(Tail(s)), Head(s))

\* list[skip:skip + limit]
Slice(s, skip, limit) == SubSeq(s, skip + 1, Min({skip + limit, Len(s)}))

\* the filters of get_recent_changes and count_recent_changes
MatchesFilters(doc, since, change_type) ==
    /\ since # None => doc.detected_at >= since
    /\ change_type # NoType => doc.change_type = change_type

\* find(filters).sort("detected_at", -1) over a collection whose documents were
\* inserted in the order of their detected_at
FindSorted(coll, since, change_type) ==
    Reverse(SelectSeq(coll, LAMBDA doc : MatchesFilters(doc, since, change_type)))

\* ChangeRepository.get_recent_changes
GetRecentChanges(coll, since, change_type, skip, limit) ==
    Slice(FindSorted(coll, since, change_type), skip, limit)

\* ChangeRepository.count_recent_changes
CountRecentChanges(coll, since, change_type) ==
    Len(FindSorted(coll, since, change_type))

\* get_changes: the list the handler works on, after its own change_type filter
HandlerChanges(coll, since, change_type, limit, page_no) ==
    LET fetched == GetRecentChanges(coll, since, NoType, 0, limit * page_no)
    IN  IF change_type # NoType
        THEN SelectSeq(fetched, LAMBDA doc : doc.change_type = change_type)
        ELSE fetched

\* get_changes: the response
GetChangesResponse(coll, since, change_type, limit, page_no) ==
    LET changes == HandlerChanges(coll, since, change_type, limit, page_no)
    IN  [total |-> Len(changes), items |-> Slice(changes, (page_no - 1) * limit, limit)]

ChangesInit ==
    /\ changes_coll = <<>>
    /\ change_request = [called |-> FALSE, since |-> None, change_type |-> NoType,
                         limit |-> 1, page |-> 1, coll |-> <<>>]
    /\ change_response = [total |-> 0, items |-> <<>>]
    /\ change_calls = 0

\* ChangeRepository.log_change: insert_one with detected_at = now
LogChange(change_type) ==
    /\ Len(changes_coll) < MaxChanges
    /\ UNCHANGED not_changes
    /\ changes_coll' = Append(changes_coll,
                          [change_type |-> change_type, detected_at |-> Len(changes_coll) + 1])
    /\ UNCHANGED <<change_request, change_response, change_calls>>

\* GET /changes?since=&change_type=&limit=&page=
GetChanges(since, change_type, limit, page_no) ==
    /\ change_calls < MaxChangeCalls
    /\ UNCHANGED not_changes
    /\ change_calls' = change_calls + 1
    /\ change_request' = [called |-> TRUE, since |-> since, change_type |-> change_type,
                          limit |-> limit, page |-> page_no, coll |-> changes_coll]
    /\ change_response' = GetChangesResponse(changes_coll, since, change_type, limit, page_no)
    /\ UNCHANGED changes_coll

ChangesNext ==
    \/ \E change_type \in ChangeTypes : LogChange(change_type)
    \/ \E since \in {None} \cup (1..MaxChanges), change_type \in ChangeTypes \cup {NoType},
          limit \in 1..MaxLimit, page_no \in 1..MaxChangePage :
         GetChanges(since, change_type, limit, page_no)

(***************************************************************************)
(* ChangeDetector.detect_changes                                           *)
(***************************************************************************)
\* _empty_stats (the per-type tallies are left to the model of one book)
EmptyStats ==
    [new_books |-> 0, changed_books |-> 0, unchanged_books |-> 0, errors |-> 0,
     total_processed |-> 0]

\* _merge_stats
MergeStats(base, delta) == [k \in DOMAIN base |-> base[k] + delta[k]]

\* variant: a coroutine that raised is not counted
ResultStats_ExceptionUncounted(result) ==
    [EmptyStats EXCEPT
       !.new_books = IF result = "new" THEN 1 ELSE 0,
       !.changed_books = IF result = "changed" THEN 1 ELSE 0,
       !.unchanged_books = IF result = "unchanged" THEN 1 ELSE 0,
       !.errors = IF result = "error" THEN 1 ELSE 0]

\* the stats one _process_single_book returns, by how it ended; a coroutine
\* that raised is counted by _process_book_urls as one error
ResultStats(result) ==
    [EmptyStats EXCEPT
       !.new_books = IF result = "new" THEN 1 ELSE 0,
       !.changed_books = IF result = "changed" THEN 1 ELSE 0,
       !.unchanged_books = IF result = "unchanged" THEN 1 ELSE 0,
       !.errors = IF result \in {"error", "exception"} THEN 1 ELSE 0]

\* _process_book_urls: the loop over the results of gather
RECURSIVE GatherStats(_)
GatherStats(tasks) ==
    IF tasks = <<>> THEN EmptyStats
    ELSE MergeStats(GatherStats(Tail(tasks)), ResultStats(Head(tasks).result))

\* `[url for url in summary.book_urls if url not in seen_urls]`
PageUrls(urls, seen) == SelectSeq(urls, LAMBDA u : u \notin seen)

\* variant: a page without book URLs does not end the walk
WalkEnds_OnlyLastPage(next, urls) == ~next

\* `if not summary.has_next or not summary.book_urls: break`
WalkEnds(next, urls) == ~next \/ urls = <<>>

\* the coroutines gather starts for the URLs of a page
NewTasks(urls) ==
    [i \in 1..Len(urls) |->
       [url |-> urls[i], pc |-> "fetch", book |-> None, existing |-> None,
        result |-> "none"]]

\* coroutines started per URL, after those of `urls` have been started
StartedWith(started, urls) ==
    [u \in Urls |-> started[u] + Cardinality({i \in 1..Len(urls) : urls[i] = u})]

\* the statistics detect_changes returns
FinalStats(s) ==
    [s EXCEPT !.total_processed = s.new_books + s.changed_books + s.unchanged_books]

DetectorInit ==
    /\ cd_pc = "idle"
    /\ cd_page = 1
    /\ cd_seen = {}
    /\ stats = EmptyStats
    /\ cd_tasks = <<>>
    /\ cd_store = [u \in Urls |-> None]
    /\ new_book_entries = [u \in Urls |-> 0]
    /\ field_entries = [u \in Urls |-> 0]
    /\ cd_started = [u \in Urls |-> 0]
    /\ cd_fetches = <<>>
    /\ cd_outcome = [how |-> "none", closed |-> FALSE]
    /\ cd_runs = 0

cd_counts == <<new_book_entries, field_entries, cd_started>>

\* detect_changes(): initialize() succeeds and the walk starts at page 1
DetectChangesCall ==
    /\ cd_pc = "idle"
    /\ UNCHANGED not_detector
    /\ cd_runs < MaxDetectRuns
    /\ cd_runs' = cd_runs + 1
    /\ cd_pc' = "catalog"
    /\ cd_page' = 1
    /\ cd_seen' = {}
    /\ stats' = EmptyStats
    /\ cd_tasks' = <<>>
    /\ new_book_entries' = [u \in Urls |-> 0]
    /\ field_entries' = [u \in Urls |-> 0]
    /\ cd_started' = [u \in Urls |-> 0]
    /\ cd_fetches' = <<>>
    /\ cd_outcome' = [how |-> "none", closed |-> FALSE]
    /\ UNCHANGED cd_store

\* detect_changes(): initialize() raises; the finally clause closes
DetectChangesInitializeFails ==
    /\ cd_pc = "idle"
    /\ UNCHANGED not_detector
    /\ cd_runs < MaxDetectRuns
    /\ cd_runs' = cd_runs + 1
    /\ cd_page' = 1
    /\ cd_seen' = {}
    /\ stats' = EmptyStats
    /\ cd_tasks' = <<>>
    /\ new_book_entries' = [u \in Urls |-> 0]
    /\ field_entries' = [u \in Urls |-> 0]
    /\ cd_started' = [u \in Urls |-> 0]
    /\ cd_fetches' = <<>>
    /\ cd_outcome' = [how |-> "raised", closed |-> TRUE]
    /\ UNCHANGED <<cd_pc, cd_store>>

\* the walk has ended: total_processed, return stats, close()
WalkReturns(s) ==
    /\ cd_pc' = "idle"
    /\ stats' = FinalStats(s)
    /\ cd_outcome' = [how |-> "returned", closed |-> TRUE]

\* after the books of a page: leave the loop or go to the next page
AfterPage(s, next, urls) ==
    IF WalkEnds(next, urls)
    THEN /\ WalkReturns(s)
         /\ UNCHANGED cd_page
    ELSE /\ cd_pc' = "catalog"
         /\ cd_page' = cd_page + 1
         /\ stats' = s
         /\ UNCHANGED cd_outcome

\* the fetch of the catalog page raises HTTPClientError: errors += 1, break
CatalogFetchFails ==
    /\ cd_pc = "catalog"
    /\ UNCHANGED not_detector
    /\ cd_fetches' = Append(cd_fetches, [page |-> cd_page, how |-> "failed", urls |-> <<>>])
    /\ WalkReturns([stats EXCEPT !.errors = @ + 1])
    /\ UNCHANGED <<cd_page, cd_seen, cd_tasks, cd_store, cd_counts, cd_runs>>

\* the catalog page is fetched, parse_catalog_page raises ParsingError: the
\* exception leaves detect_changes through the finally clause
CatalogParseRaises ==
    /\ cd_pc = "catalog"
    /\ UNCHANGED not_detector
    /\ cd_fetches' = Append(cd_fetches, [page |-> cd_page, how |-> "unparsed", urls |-> <<>>])
    /\ cd_pc' = "idle"
    /\ cd_outcome' = [how |-> "raised", closed |-> TRUE]
    /\ UNCHANGED <<cd_page, cd_seen, stats, cd_tasks, cd_store, cd_counts, cd_runs>>

\* the catalog page is fetched and parsed; its unseen URLs are marked seen and
\* _process_book_urls starts one coroutine per URL (or returns at once when
\* there is none)
CatalogPage(urls) ==
    LET page_urls == PageUrls(urls, cd_seen)
        next == cd_page < NumCatalogPages
    IN
    /\ cd_pc = "catalog"
    /\ UNCHANGED not_detector
    /\ cd_fetches' = Append(cd_fetches, [page |-> cd_page, how |-> "parsed", urls |-> urls])
    /\ cd_seen' = cd_seen \cup Range(page_urls)
    /\ cd_started' = StartedWith(cd_started, page_urls)
    /\ IF page_urls = <<>>
       THEN /\ AfterPage(stats, next, urls)
            /\ UNCHANGED cd_tasks
       ELSE /\ cd_tasks' = NewTasks(page_urls)
            /\ cd_pc' = "gather"
            /\ UNCHANGED <<cd_page, stats, cd_outcome>>
    /\ UNCHANGED <<cd_store, new_book_entries, field_entries, cd_runs>>

\* what a step of one coroutine leaves alone
cd_walk == <<cd_pc, cd_page, cd_seen, stats, cd_started, cd_fetches, cd_outcome, cd_runs>>

TaskAt(i, where) ==
    /\ cd_pc = "gather"
    /\ i \in 1..Len(cd_tasks)
    /\ cd_tasks[i].pc = where

\* fetch_html and parse_book_page succeed
FetchBook(i, content) ==
    /\ TaskAt(i, "fetch")
    /\ UNCHANGED not_detector
    /\ cd_tasks' = [cd_tasks EXCEPT ![i].book = content, ![i].pc = "find"]
    /\ UNCHANGED <<cd_walk, cd_store, new_book_entries, field_entries>>

\* fetch_html or parse_book_page raises: record_failed_crawl, errors += 1
FetchBookFails(i) ==
    /\ TaskAt(i, "fetch")
    /\ UNCHANGED not_detector
    /\ cd_tasks' = [cd_tasks EXCEPT ![i].result = "error", ![i].pc = "done"]
    /\ UNCHANGED <<cd_walk, cd_store, new_book_entries, field_entries>>

\* find_one by source_url, then the branch on the stored document and its hash
FindExisting(i) ==
    LET existing == cd_store[cd_tasks[i].url] IN
    /\ TaskAt(i, "find")
    /\ UNCHANGED not_detector
    /\ cd_tasks' =
         IF existing = None
         THEN [cd_tasks EXCEPT ![i].existing = existing, ![i].pc = "upsert_new"]
         ELSE IF existing = cd_tasks[i].book
         THEN [cd_tasks EXCEPT ![i].existing = existing, ![i].result = "unchanged",
                               ![i].pc = "done"]
         ELSE [cd_tasks EXCEPT ![i].existing = existing, ![i].pc = "compare"]
    /\ UNCHANGED <<cd_walk, cd_store, new_book_entries, field_entries>>

\* upsert_book of a book that had no stored document
UpsertNew(i) ==
    /\ TaskAt(i, "upsert_new")
    /\ UNCHANGED not_detector
    /\ cd_store' = [cd_store EXCEPT ![cd_tasks[i].url] = cd_tasks[i].book]
    /\ cd_tasks' = [cd_tasks EXCEPT ![i].pc = "log_new"]
    /\ UNCHANGED <<cd_walk, new_book_entries, field_entries>>

\* detect_new_book: the 'new_book' change entry; new_books += 1
DetectNewBook(i) ==
    /\ TaskAt(i, "log_new")
    /\ UNCHANGED not_detector
    /\ new_book_entries' = [new_book_entries EXCEPT ![cd_tasks[i].url] = @ + 1]
    /\ cd_tasks' = [cd_tasks EXCEPT ![i].result = "new", ![i].pc = "done"]
    /\ UNCHANGED <<cd_walk, cd_store, field_entries>>

\* compare_and_log_changes of a book whose content differs from the stored one
CompareAndLogChanges(i) ==
    /\ TaskAt(i, "compare")
    /\ UNCHANGED not_detector
    /\ field_entries' = [field_entries EXCEPT ![cd_tasks[i].url] = @ + 1]
    /\ cd_tasks' = [cd_tasks EXCEPT ![i].pc = "upsert_changed"]
    /\ UNCHANGED <<cd_walk, cd_store, new_book_entries>>

\* changed_books += 1 and upsert_book of the new state
UpsertChanged(i) ==
    /\ TaskAt(i, "upsert_changed")
    /\ UNCHANGED not_detector
    /\ cd_store' = [cd_store EXCEPT ![cd_tasks[i].url] = cd_tasks[i].book]
    /\ cd_tasks' = [cd_tasks EXCEPT ![i].result = "changed", ![i].pc = "done"]
    /\ UNCHANGED <<cd_walk, new_book_entries, field_entries>>

\* a store call of the coroutine raises: gather returns the exception
StoreRaises(i) ==
    /\ cd_pc = "gather"
    /\ i \in 1..Len(cd_tasks)
    /\ cd_tasks[i].pc \in {"find", "upsert_new", "log_new", "compare", "upsert_changed"}
    /\ UNCHANGED not_detector
    /\ cd_tasks' = [cd_tasks EXCEPT ![i].result = "exception", ![i].pc = "done"]
    /\ UNCHANGED <<cd_walk, cd_store, new_book_entries, field_entries>>

\* gather returns: the page's stats are merged and the loop goes on or ends
GatherReturns ==
    /\ cd_pc = "gather"
    /\ UNCHANGED not_detector
    /\ \A i \in 1..Len(cd_tasks) : cd_tasks[i].pc = "done"
    /\ AfterPage(MergeStats(stats, GatherStats(cd_tasks)), cd_page < NumCatalogPages,
                 cd_fetches[Len(cd_fetches)].urls)
    /\ cd_tasks' = <<>>
    /\ UNCHANGED <<cd_seen, cd_store, cd_counts, cd_fetches, cd_runs>>

DetectorNext ==
    \/ DetectChangesCall
    \/ DetectChangesInitializeFails
    \/ CatalogFetchFails
    \/ CatalogParseRaises
    \/ \E urls \in {<<>>, BookUrls(cd_page)} : CatalogPage(urls)
    \/ \E i \in 1..MaxBatchLen, content \in BookValues : FetchBook(i, content)
    \/ \E i \in 1..MaxBatchLen : FetchBookFails(i)
    \/ \E i \in 1..MaxBatchLen : FindExisting(i)
    \/ \E i \in 1..MaxBatchLen : UpsertNew(i)
    \/ \E i \in 1..MaxBatchLen : DetectNewBook(i)
    \/ \E i \in 1..MaxBatchLen : CompareAndLogChanges(i)
    \/ \E i \in 1..MaxBatchLen : UpsertChanged(i)
    \/ \E i \in 1..MaxBatchLen : StoreRaises(i)
    \/ GatherReturns

(***************************************************************************)
(* ChangeDetector._process_single_book, compare_and_log_changes            *)
(***************************************************************************)
\* the values a field of a book takes
FieldValues == {1, 2}

\* Book.description: None, the empty string (0) or a text
DescriptionValues == {None, 0, 1}

\* generate_content_hash: the hash is determined by the five hashed fields
ContentHash(b) ==
    <<b.name, b.price_incl_tax, b.price_excl_tax, b.availability, b.rating>>

\* Book: the fields the detector reads; content_hash as parse_book_page sets it
Books ==
    {[name |-> n, price_incl_tax |-> pi, price_excl_tax |-> pe, availability |-> a,
      description |-> d, rating |-> r,
      content_hash |-> <<n, pi, pe, a, r>>] :
       n \in FieldValues, pi \in FieldValues, pe \in FieldValues, a \in FieldValues,
       d \in DescriptionValues, r \in FieldValues}

\* the books parse_book_page can return for the URL: validate_price_incl_tax
\* rejects a price including tax below the price excluding tax
ParsedBooks == {b \in Books : b.price_incl_tax >= b.price_excl_tax}

\* `description or ""`
OrEmpty(d) == IF d = None THEN 0 ELSE d

\* the two sides of every comparison of compare_and_log_changes
Compared(b, field) ==
    IF field = "description" THEN OrEmpty(b.description) ELSE b[field]

\* variant: the rating is not compared
ComparedFields_NoRating ==
    <<"price_incl_tax", "price_excl_tax", "availability", "description">>

\* the fields compare_and_log_changes compares, in its order
ComparedFields ==
    <<"price_incl_tax", "price_excl_tax", "availability", "description", "rating">>

\* the change_type logged for a field
ChangeTypeOf(field) ==
    CASE field \in {"price_incl_tax", "price_excl_tax"} -> "price_change"
      [] field = "availability" -> "availability_change"
      [] field = "description" -> "description_change"
      [] field = "rating" -> "rating_change"

\* compare_and_log_changes: the list of changes, over the first n fields
RECURSIVE ChangesUpTo(_, _, _)
ChangesUpTo(old, new, n) ==
    IF n = 0 THEN <<>>
    ELSE LET field == ComparedFields[n]
             before == ChangesUpTo(old, new, n - 1)
         IN  IF Compared(old, field) # Compared(new, field)
             THEN Append(before, [type |-> ChangeTypeOf(field), field |-> field])
             ELSE before

Changes(old, new) == ChangesUpTo(old, new, Len(ComparedFields))

\* number of changes of one type in a list
CountType(changes, type) == Cardinality({i \in 1..Len(changes) : changes[i].type = type})

\* _empty_stats
EmptyBookStats ==
    [new_books |-> 0, changed_books |-> 0, unchanged_books |-> 0, price_changes |-> 0,
     availability_changes |-> 0, description_changes |-> 0, rating_changes |-> 0,
     errors |-> 0, total_processed |-> 0]

\* the stats of a changed book: changed_books and the tallies by change type
ChangedStats(changes) ==
    [EmptyBookStats EXCEPT
       !.changed_books = 1,
       !.price_changes = CountType(changes, "price_change"),
       !.availability_changes = CountType(changes, "availability_change"),
       !.description_changes = CountType(changes, "description_change"),
       !.rating_changes = CountType(changes, "rating_change")]

\* a book the model never reads: the value of pb_book and of an absent document
NoBook == CHOOSE b \in ParsedBooks : \A f \in DOMAIN b \ {"content_hash"} : b[f] \in {1, 0}

Absent == [present |-> FALSE, book |-> NoBook]

ProcessBookInit ==
    /\ pb_pc = "idle"
    /\ pb_book = NoBook
    /\ pb_doc = Absent
    /\ pb_existing = Absent
    /\ pb_entries = <<>>
    /\ pb_upserts = 0
    /\ pb_stats = EmptyBookStats
    /\ pb_result = "none"
    /\ pb_calls = 0

\* the call ends by returning `s`
ProcessBookReturns(s) ==
    /\ pb_pc' = "idle"
    /\ pb_stats' = s
    /\ pb_result' = "returned"

\* _process_single_book(url): fetch_html and parse_book_page succeed
ProcessSingleBook(b) ==
    /\ pb_pc = "idle"
    /\ UNCHANGED not_book
    /\ pb_calls < MaxProcessCalls
    /\ pb_calls' = pb_calls + 1
    /\ pb_book' = b
    /\ pb_existing' = Absent
    /\ pb_entries' = <<>>
    /\ pb_upserts' = 0
    /\ pb_stats' = EmptyBookStats
    /\ pb_result' = "none"
    /\ pb_pc' = "find"
    /\ UNCHANGED pb_doc

\* _process_single_book(url): fetch_html or parse_book_page raises; the
\* failure is recorded and the call returns errors = 1
ProcessSingleBookFails ==
    /\ pb_pc = "idle"
    /\ UNCHANGED not_book
    /\ pb_calls < MaxProcessCalls
    /\ pb_calls' = pb_calls + 1
    /\ pb_book' = NoBook
    /\ pb_existing' = Absent
    /\ pb_entries' = <<>>
    /\ pb_upserts' = 0
    /\ pb_stats' = [EmptyBookStats EXCEPT !.errors = 1]
    /\ pb_result' = "returned"
    /\ UNCHANGED <<pb_pc, pb_doc>>

\* find_one by source_url and the branches on the document and its hash
FindOne ==
    /\ pb_pc = "find"
    /\ UNCHANGED not_book
    /\ pb_existing' = pb_doc
    /\ IF ~pb_doc.present
       THEN /\ pb_pc' = "upsert_new"
            /\ UNCHANGED <<pb_stats, pb_result>>
       ELSE IF pb_doc.book.content_hash = pb_book.content_hash
       THEN ProcessBookReturns([EmptyBookStats EXCEPT !.unchanged_books = 1])
       ELSE /\ pb_pc' = "compare"
            /\ UNCHANGED <<pb_stats, pb_result>>
    /\ UNCHANGED <<pb_book, pb_doc, pb_entries, pb_upserts, pb_calls>>

\* upsert_book(book) of a book without stored document
UpsertNewBook ==
    /\ pb_pc = "upsert_new"
    /\ UNCHANGED not_book
    /\ pb_doc' = [present |-> TRUE, book |-> pb_book]
    /\ pb_upserts' = pb_upserts + 1
    /\ pb_pc' = "log_new"
    /\ UNCHANGED <<pb_book, pb_existing, pb_entries, pb_stats, pb_result, pb_calls>>

\* detect_new_book: the 'new_book' entry without field; new_books += 1
LogNewBook ==
    /\ pb_pc = "log_new"
    /\ UNCHANGED not_book
    /\ pb_entries' = Append(pb_entries, [type |-> "new_book", field |-> "none"])
    /\ ProcessBookReturns([EmptyBookStats EXCEPT !.new_books = 1])
    /\ UNCHANGED <<pb_book, pb_doc, pb_existing, pb_upserts, pb_calls>>

\* compare_and_log_changes returns; no change: unchanged_books += 1
CompareBooks ==
    LET changes == Changes(pb_existing.book, pb_book) IN
    /\ pb_pc = "compare"
    /\ UNCHANGED not_book
    /\ pb_entries' = pb_entries \o changes
    /\ IF changes = <<>>
       THEN ProcessBookReturns([EmptyBookStats EXCEPT !.unchanged_books = 1])
       ELSE /\ pb_pc' = "upsert_changed"
            /\ UNCHANGED <<pb_stats, pb_result>>
    /\ UNCHANGED <<pb_book, pb_doc, pb_existing, pb_upserts, pb_calls>>

\* a log_change of compare_and_log_changes raises after n entries were written
CompareRaises(n) ==
    LET changes == Changes(pb_existing.book, pb_book) IN
    /\ pb_pc = "compare"
    /\ UNCHANGED not_book
    /\ n < Len(changes)
    /\ pb_entries' = pb_entries \o SubSeq(changes, 1, n)
    /\ pb_pc' = "idle"
    /\ pb_result' = "raised"
    /\ UNCHANGED <<pb_book, pb_doc, pb_existing, pb_upserts, pb_stats, pb_calls>>

\* changed_books += 1, the tallies by type, and upsert_book(book)
UpsertChangedBook ==
    /\ pb_pc = "upsert_changed"
    /\ UNCHANGED not_book
    /\ pb_doc' = [present |-> TRUE, book |-> pb_book]
    /\ pb_upserts' = pb_upserts + 1
    /\ ProcessBookReturns(ChangedStats(pb_entries))
    /\ UNCHANGED <<pb_book, pb_existing, pb_entries, pb_calls>>

\* find_one, upsert_book or the log_change of detect_new_book raises
StoreCallRaises ==
    /\ pb_pc \in {"find", "upsert_new", "log_new", "upsert_changed"}
    /\ UNCHANGED not_book
    /\ pb_pc' = "idle"
    /\ pb_result' = "raised"
    /\ UNCHANGED <<pb_book, pb_doc, pb_existing, pb_entries, pb_upserts, pb_stats, pb_calls>>

ProcessBookNext ==
    \/ \E b \in ParsedBooks : ProcessSingleBook(b)
    \/ ProcessSingleBookFails
    \/ FindOne
    \/ UpsertNewBook
    \/ LogNewBook
    \/ CompareBooks
    \/ \E n \in 0..Len(ComparedFields) : CompareRaises(n)
    \/ UpsertChangedBook
    \/ StoreCallRaises

(***************************************************************************)
(* GET /books/{book_id}                                                    *)
(***************************************************************************)
\* the strings a request can carry as {book_id}: 1..NumObjectIds are
\* well-formed ObjectIds, the others are not
ObjectIds == 1..NumObjectIds

Texts == (NumObjectIds + 1)..(NumObjectIds + NumTexts)

\* ObjectId(book_id) raises bson.errors.InvalidId for any other string
WellFormed(s) == s \in ObjectIds

\* no document / no book
NoDoc == 0

\* find_one({"_id": ObjectId(book_id)})
FindById(store, oid) == IF store[oid] # NoDoc THEN oid ELSE NoDoc

\* find_one({"source_url": url}): some document with that source_url
FindByUrl(store, url) ==
    IF \E oid \in ObjectIds : store[oid] = url
    THEN CHOOSE oid \in ObjectIds : store[oid] = url
    ELSE NoDoc

\* BookRepository.get_book_by_id: the exception of ObjectId() is logged and
\* re-raised
GetBookById(store, s) ==
    IF ~WellFormed(s) THEN [raised |-> TRUE, book |-> NoDoc]
    ELSE [raised |-> FALSE, book |-> FindById(store, s)]

\* BookRepository.get_book_by_url
GetBookByUrl(store, s) == FindByUrl(store, s)

\* global_exception_handler
InternalServerError ==
    [status |-> 500, detail |-> [text |-> "Internal server error", id |-> NoDoc], book |-> NoDoc]

\* the HTTPException of get_book; the detail carries the {book_id}
BookNotFound(s) ==
    [status |-> 404, detail |-> [text |-> "Book not found: ", id |-> s], book |-> NoDoc]

\* BookDetailResponse of the book found
BookDetail(doc) == [status |-> 200, detail |-> [text |-> "", id |-> NoDoc], book |-> doc]

\* get_book(book_id)
GetBookResponse(store, s) ==
    LET by_id == GetBookById(store, s) IN
    IF by_id.raised THEN InternalServerError
    ELSE LET book == IF by_id.book # NoDoc THEN by_id.book ELSE GetBookByUrl(store, s)
         IN  IF book = NoDoc THEN BookNotFound(s) ELSE BookDetail(book)

GetBookInit ==
    /\ gb_store = [oid \in ObjectIds |-> NoDoc]
    /\ gb_request = NoDoc
    /\ gb_response = BookDetail(NoDoc)
    /\ gb_calls = 0

\* a crawl stores a book: a document with a new ObjectId and the book's
\* source_url, one document per source_url
StoreBook(oid, url) ==
    /\ gb_store[oid] = NoDoc
    /\ UNCHANGED not_getbook
    /\ \A o \in ObjectIds : gb_store[o] # url
    /\ gb_store' = [gb_store EXCEPT ![oid] = url]
    /\ UNCHANGED <<gb_request, gb_response, gb_calls>>

\* GET /books/{book_id}
GetBook(s) ==
    /\ gb_calls < MaxGetBookCalls
    /\ UNCHANGED not_getbook
    /\ gb_calls' = gb_calls + 1
    /\ gb_request' = s
    /\ gb_response' = GetBookResponse(gb_store, s)
    /\ UNCHANGED gb_store

GetBookNext ==
    \/ \E oid \in ObjectIds, url \in Texts : StoreBook(oid, url)
    \/ \E s \in ObjectIds \cup Texts : GetBook(s)

(***************************************************************************)
(* BookScraper.crawl_all_books: the page loop on a finite catalog          *)
(***************************************************************************)
\* the page numbers past the last catalog page, kept as one value: the site
\* has no such page and `page` is only compared with itself
Beyond == NumCatalogPages + 1

\* `page = current_page + 1` over 1..Beyond
NextPageUpTo(cur) == IF NextPage(cur) > Beyond THEN Beyond ELSE NextPage(cur)

\* pages_processed is only compared with max_pages: it is counted up to one
\* more than the largest max_pages
CountCap == MaxPagesArg + 1

CountUpTo(n) == IF n + 1 > CountCap THEN CountCap ELSE n + 1

\* failed_catalog_pages.append(current_page), as the sorted set the retry
\* pass makes of it
FailedWith(failed, cur) == Sorted(Range(failed) \cup {cur})

PageLoopInit ==
    /\ pl_pc = "idle"
    /\ pl_max_pages = None
    /\ pl_page = 1
    /\ pl_current = 1
    /\ pl_processed = 0
    /\ pl_hit = FALSE
    /\ pl_failed = <<>>
    /\ pl_retry = <<>>
    /\ pl_closed = FALSE
    /\ pl_runs = 0

\* crawl_all_books(max_pages=m) up to the first test of the loop, resuming
\* at page `start`
PageLoopCall(m, start) ==
    /\ pl_pc = "idle"
    /\ UNCHANGED not_pageloop
    /\ pl_runs < MaxLoopRuns
    /\ pl_runs' = pl_runs + 1
    /\ pl_max_pages' = m
    /\ pl_page' = start
    /\ pl_current' = start
    /\ pl_processed' = 0
    /\ pl_hit' = FALSE
    /\ pl_failed' = <<>>
    /\ pl_retry' = <<>>
    /\ pl_closed' = FALSE
    /\ pl_pc' = "loop"

\* top of `while True`: the max_pages test
PageLoopTop ==
    /\ pl_pc = "loop"
    /\ UNCHANGED not_pageloop
    /\ IF MaxPagesReached(pl_max_pages, pl_processed)
       THEN /\ pl_hit' = TRUE
            /\ pl_pc' = "mark_idle"
            /\ UNCHANGED pl_current
       ELSE /\ pl_current' = pl_page
            /\ pl_pc' = "fetch"
            /\ UNCHANGED pl_hit
    /\ UNCHANGED <<pl_max_pages, pl_page, pl_processed, pl_failed, pl_retry, pl_closed,
                   pl_runs>>

\* fetch_html raises HTTPClientError (HTTP status, transport failure or open
\* circuit breaker): the page is noted, `page = current_page + 1`, `continue`
PageFetchFails ==
    /\ pl_pc = "fetch"
    /\ UNCHANGED not_pageloop
    /\ pl_failed' = FailedWith(pl_failed, pl_current)
    /\ pl_page' = NextPageUpTo(pl_current)
    /\ pl_processed' = CountUpTo(pl_processed)
    /\ pl_pc' = "loop"
    /\ UNCHANGED <<pl_max_pages, pl_current, pl_hit, pl_retry, pl_closed, pl_runs>>

\* the page is fetched and parsed; without book URLs the loop ends, with
\* book URLs the batch is crawled, the checkpoint is saved and the loop ends
\* when the page has no next link. Only a page of the catalog lists books.
PageCrawled(listed) ==
    /\ pl_pc = "fetch"
    /\ UNCHANGED not_pageloop
    /\ listed => pl_current <= NumCatalogPages
    /\ pl_processed' = CountUpTo(pl_processed)
    /\ IF listed /\ pl_current < NumCatalogPages
       THEN /\ pl_page' = NextPageUpTo(pl_current)
            /\ pl_pc' = "loop"
       ELSE /\ pl_pc' = "mark_idle"
            /\ UNCHANGED pl_page
    /\ UNCHANGED <<pl_max_pages, pl_current, pl_hit, pl_failed, pl_retry, pl_closed, pl_runs>>

\* another exception inside the loop's try block: error checkpoint, `raise`
PageLoopRaises ==
    /\ pl_pc = "fetch"
    /\ UNCHANGED not_pageloop
    /\ pl_processed' = CountUpTo(pl_processed)
    /\ pl_pc' = "close"
    /\ UNCHANGED <<pl_max_pages, pl_page, pl_current, pl_hit, pl_failed, pl_retry, pl_closed,
                   pl_runs>>

\* the final checkpoint and the decision whether _retry_catalog_pages runs
PageLoopMarkIdle ==
    /\ pl_pc = "mark_idle"
    /\ UNCHANGED not_pageloop
    /\ IF RetryPassRuns(pl_failed, pl_hit)
       THEN pl_retry' = pl_failed /\ pl_pc' = "retry"
       ELSE pl_retry' = pl_retry /\ pl_pc' = "close"
    /\ UNCHANGED <<pl_max_pages, pl_page, pl_current, pl_processed, pl_hit, pl_failed,
                   pl_closed, pl_runs>>

\* _retry_catalog_pages visits its next page; what fails there is logged
PageLoopRetry ==
    /\ pl_pc = "retry"
    /\ UNCHANGED not_pageloop
    /\ pl_retry # <<>>
    /\ pl_retry' = Tail(pl_retry)
    /\ UNCHANGED <<pl_pc, pl_max_pages, pl_page, pl_current, pl_processed, pl_hit, pl_failed,
                   pl_closed, pl_runs>>

\* _retry_catalog_pages returns
PageLoopRetryDone ==
    /\ pl_pc = "retry"
    /\ UNCHANGED not_pageloop
    /\ pl_retry = <<>>
    /\ pl_pc' = "close"
    /\ UNCHANGED <<pl_max_pages, pl_page, pl_current, pl_processed, pl_hit, pl_failed,
                   pl_retry, pl_closed, pl_runs>>

\* outer `finally: await self.close()`; the call ends
PageLoopClose ==
    /\ pl_pc = "close"
    /\ UNCHANGED not_pageloop
    /\ pl_closed' = TRUE
    /\ pl_pc' = "idle"
    /\ UNCHANGED <<pl_max_pages, pl_page, pl_current, pl_processed, pl_hit, pl_failed,
                   pl_retry, pl_runs>>

PageLoopNext ==
    \/ \E m \in {None} \cup (1..MaxPagesArg), start \in 1..NumCatalogPages :
         PageLoopCall(m, start)
    \/ PageLoopTop
    \/ PageFetchFails
    \/ \E listed \in BOOLEAN : PageCrawled(listed)
    \/ PageLoopRaises
    \/ PageLoopMarkIdle
    \/ PageLoopRetry
    \/ PageLoopRetryDone
    \/ PageLoopClose

Init ==
    /\ ClientInit
    /\ ScraperInit
    /\ BatchInit
    /\ LimiterInit
    /\ SchedulerInit
    /\ RetryInit
    /\ DatabaseInit
    /\ StateRepositoryInit
    /\ BookRepositoryInit
    /\ ChangesInit
    /\ DetectorInit
    /\ ProcessBookInit
    /\ GetBookInit
    /\ PageLoopInit

SpecClient == Init /\ [][ClientNext]_vars

SpecScraper == Init /\ [][ScraperNext]_vars

SpecBatch == Init /\ [][BatchNext]_vars

SpecLimiter == Init /\ [][LimiterNext]_vars

SpecScheduler == Init /\ [][SchedulerNext]_vars

SpecRetry == Init /\ [][RetryNext]_vars

SpecDatabase == Init /\ [][DatabaseNext]_vars

SpecStateRepository == Init /\ [][StateRepositoryNext]_vars

SpecBookRepository == Init /\ [][BookRepositoryNext]_vars

SpecChanges == Init /\ [][ChangesNext]_vars

SpecDetector == Init /\ [][DetectorNext]_vars

SpecProcessBook == Init /\ [][ProcessBookNext]_vars

SpecGetBook == Init /\ [][GetBookNext]_vars

SpecPageLoop == Init /\ [][PageLoopNext]_vars

\* every step of crawl_all_books is a step of one coroutine that the event
\* loop resumes whenever it can run
SpecPageLoopFair == SpecPageLoop /\ WF_vars(PageLoopNext)

\* the event loop keeps running the coroutines of a detect_changes call
SpecDetectorFair == SpecDetector /\ WF_vars(DetectorNext)

(***************************************************************************)
(* Steps of a fetch() coroutine, read off two successive states            *)
(***************************************************************************)
InProgress(t) == task_pc[t] \in {"waiting", "inflight"}

\* a fetch() call starts in this step
FetchStarts == calls' = calls + 1

\* the call that starts in this step passes the circuit breaker
FetchAdmitted == \E t \in Tasks : task_pc[t] = "idle" /\ InProgress(t)'

\* the call that starts in this step is rejected with the given error
FetchRejected(err) ==
    /\ task_pc' = task_pc
    /\ \E t \in Tasks : task_pc[t] = "idle" /\ outcome'[t] = err

\* the GET of coroutine t resolves in this step
GetResolves(t, how) ==
    task_pc[t] = "inflight" /\ task_pc'[t] = "idle" /\ outcome'[t] = how

BreakerUnchanged ==
    UNCHANGED <<circuit_state, failure_count, circuit_open_until, half_open_attempts>>

(***************************************************************************)
(* C1: while the breaker is closed every fetch is admitted; a failed GET   *)
(* adds 1 to the failure counter and a successful GET sets it to 0; the    *)
(* breaker leaves closed exactly on the failure that brings the counter to *)
(* circuit_failure_threshold, and then open-until = now + reset timeout.   *)
(***************************************************************************)
C1_ClosedCountsConsecutiveFailures ==
    [][circuit_state = "closed" =>
          /\ failure_count < circuit_failure_threshold
          /\ FetchStarts => FetchAdmitted /\ BreakerUnchanged
          /\ \A t \in Tasks :
                /\ GetResolves(t, "failed") =>
                      /\ failure_count' = failure_count + 1
                      /\ IF failure_count' = circuit_failure_threshold
                         THEN /\ circuit_state' = "open"
                              /\ circuit_open_until' = now + circuit_reset_timeout
                         ELSE /\ circuit_state' = "closed"
                              /\ circuit_open_until' = circuit_open_until
                /\ GetResolves(t, "ok") =>
                      failure_count' = 0 /\ circuit_state' = "closed"
      ]_vars

\* the breaker has tripped from closed on the threshold-th consecutive failure,
\* after an earlier failure was wiped out by a success
C1_Witness ==
    /\ circuit_state = "open"
    /\ failure_count = circuit_failure_threshold
    /\ circuit_open_until = now + circuit_reset_timeout
    /\ calls > circuit_failure_threshold + 1
    /\ \E t, u \in Tasks :
          /\ outcome[t] = "ok"
          /\ outcome[u] = "failed" /\ resolved_in[u] = "closed"

(***************************************************************************)
(* C2: a fetch that starts while the breaker is open and open-until has    *)
(* not elapsed is rejected with "Circuit breaker open", issues no GET and  *)
(* leaves state, failure counter and open-until unchanged.                 *)
(***************************************************************************)
C2_OpenRejectsWithoutGet ==
    [][(circuit_state = "open" /\ now < circuit_open_until /\ FetchStarts) =>
          /\ FetchRejected("circuit_open")
          /\ gets' = gets
          /\ semaphore' = semaphore
          /\ BreakerUnchanged
      ]_vars

C2_Witness ==
    /\ circuit_state = "open"
    /\ now < circuit_open_until
    /\ \E t \in Tasks : outcome[t] = "circuit_open"

(***************************************************************************)
(* C3: between entering half-open and the next state transition at most    *)
(* circuit_half_open_max_calls fetches are admitted; a further fetch is    *)
(* rejected with "half-open limit reached" and issues no GET, also while   *)
(* an admitted trial is still unresolved.                                  *)
(***************************************************************************)
C3_HalfOpenTrialCap ==
    [][/\ circuit_state' = "half-open" => trials' <= circuit_half_open_max_calls
       /\ (/\ circuit_state = "half-open"
           /\ trials >= circuit_half_open_max_calls
           /\ FetchStarts) =>
             /\ FetchRejected("half_open_limit")
             /\ gets' = gets
             /\ semaphore' = semaphore
             /\ BreakerUnchanged
      ]_vars

\* a fetch was rejected at the cap while a trial is still unresolved
C3_Witness ==
    /\ circuit_state = "half-open"
    /\ trials = circuit_half_open_max_calls
    /\ \E t, u \in Tasks :
          /\ outcome[t] = "half_open_limit"
          /\ InProgress(u) /\ admitted_in[u] = "half-open"

(***************************************************************************)
(* C4: in the half-open state a trial GET that fails moves the breaker to  *)
(* open with open-until = now + reset timeout, whatever the failure count; *)
(* a trial GET that succeeds moves it to closed with failure counter 0,    *)
(* open-until cleared and trial counter 0.                                 *)
(***************************************************************************)
C4_HalfOpenTrialOutcome ==
    [][\A t \in Tasks :
          (circuit_state = "half-open" /\ admitted_in[t] = "half-open") =>
             /\ GetResolves(t, "failed") =>
                   /\ circuit_state' = "open"
                   /\ circuit_open_until' = now + circuit_reset_timeout
                   /\ half_open_attempts' = 0
             /\ GetResolves(t, "ok") =>
                   /\ circuit_state' = "closed"
                   /\ failure_count' = 0
                   /\ circuit_open_until' = None
                   /\ half_open_attempts' = 0
      ]_vars

\* one trial failed in half-open, a later trial succeeded in half-open
C4_Witness ==
    /\ circuit_state = "closed"
    /\ \E t, u \in Tasks :
          /\ outcome[t] = "failed" /\ admitted_in[t] = "half-open"
          /\ resolved_in[t] = "half-open"
          /\ outcome[u] = "ok" /\ admitted_in[u] = "half-open"
          /\ resolved_in[u] = "half-open"

(***************************************************************************)
(* C5: once open, the breaker stays open until open-until has elapsed and  *)
(* leaves open only to half-open; a request admitted before the trip that  *)
(* completes after it does not close the breaker.                          *)
(***************************************************************************)
C5_OpenLeavesOnlyToHalfOpen ==
    [][circuit_state = "open" =>
          \/ circuit_state' = "open"
          \/ circuit_state' = "half-open" /\ now >= circuit_open_until
      ]_vars

(***************************************************************************)
(* Observations on a crawl_all_books call                                  *)
(***************************************************************************)
\* the call has written its first checkpoint
Checkpointed == ckpt_log # <<>>

\* last_page values written by the call, in order
CkptPages == [i \in 1..Len(ckpt_log) |-> ckpt_log[i].last_page]

\* pages whose book batch the call has completed
Processed == {processed_log[i].page : i \in 1..Len(processed_log)}

\* the page the claim expects the loop to start at
ExpectedStartPage ==
    IF resume /\ prev_state # <<>> THEN Max(1, prev_state[1].last_page) ELSE 1

NonDecreasing(q) == \A i, j \in 1..Len(q) : i < j => q[i] <= q[j]

StrictlyIncreasing(q) == \A i, j \in 1..Len(q) : i < j => q[i] < q[j]

(***************************************************************************)
(* C6: with resume the page loop starts at the persisted last_page (at 1   *)
(* when nothing is persisted), whatever the persisted status; without      *)
(* resume the persisted state is deleted and the loop starts at 1; in both *)
(* cases the first write of the call is 'running' at the start page with 0 *)
(* books, and it precedes the first catalog fetch.                         *)
(***************************************************************************)
C6_StartPageAndInitialCheckpoint ==
    /\ (pc = "mark_running" /\ ~resume) => db_state = <<>>
    /\ pc \in {"mark_running", "loop", "fetch", "parse", "batch", "checkpoint"} =>
          start_page = ExpectedStartPage /\ start_page >= 1
    /\ (pc = "fetch" /\ pages_processed = 0) => current_page = ExpectedStartPage
    /\ (InCall /\ fetch_log # <<>>) => Checkpointed
    /\ Checkpointed =>
          ckpt_log[1] = [last_page |-> ExpectedStartPage, total_books_crawled |-> 0,
                         status |-> "running"]

\* a resumed call is about to fetch page 2, the page an aborted call left
\* behind with status 'error'
C6_Witness ==
    /\ pc = "fetch"
    /\ resume
    /\ pages_processed = 0
    /\ prev_state # <<>>
    /\ prev_state[1].status = "error"
    /\ prev_state[1].last_page = 2
    /\ current_page = 2
    /\ db_state = SaveState(2, 0, "running")

(***************************************************************************)
(* C7: when crawl_all_books returns normally the persisted state is 'idle' *)
(* at max(last processed page, start page), also when failed catalog pages *)
(* were retried at the end.                                                *)
(***************************************************************************)
C7_IdleAfterNormalCompletion ==
    pc = "returned" =>
        /\ db_state # <<>>
        /\ db_state[1].status = "idle"
        /\ db_state[1].last_page = Max(last_processed_page, start_page)

C9_FailedPagesRetriedOnce ==
    /\ [][(pc = "fetch" /\ pc' \notin {"parse", "initialize"}) =>
             /\ pc' = "loop"
             /\ failed_catalog_pages' = Append(failed_catalog_pages, current_page)
             /\ page' = current_page + 1
             /\ exc' = "none"
         ]_vars
    /\ [](pc = "returned" =>
             retry_log = IF hit_max_page_limit THEN <<>> ELSE failed_catalog_pages)
    /\ [](retry_log # <<>> => exc = "none" /\ pc # "raised")

\* page 1 failed in the main loop, page 2 was processed, and the retry of
\* page 1 failed again without the call raising
C9_Witness ==
    /\ pc = "returned"
    /\ ~hit_max_page_limit
    /\ failed_catalog_pages = <<1>>
    /\ retry_log = <<1>>
    /\ processed_log = <<[page |-> 2, pass |-> "main"]>>
    /\ db_state[1].status = "idle"

(***************************************************************************)
(* C10 (as claimed): within one call no page is processed after a          *)
(* higher-numbered page, and the last_page of successive checkpoints never *)
(* decreases.                                                              *)
(***************************************************************************)
C10_PagesAndCheckpointsIncrease ==
    /\ StrictlyIncreasing([i \in 1..Len(processed_log) |-> processed_log[i].page])
    /\ NonDecreasing(CkptPages)

(***************************************************************************)
(* C10 (amended): the main loop fetches and processes catalog pages in     *)
(* strictly increasing order and the last_page of the checkpoints up to    *)
(* and including the 'idle' one never decreases; the retry pass comes      *)
(* after the main loop and visits the failed pages in increasing order,    *)
(* each of them lower than the last page of the main loop.                 *)
(***************************************************************************)
C10_MainLoopIncreasesRetryRevisits ==
    /\ StrictlyIncreasing(fetch_log)
    /\ StrictlyIncreasing(retry_log)
    /\ \A i, j \in 1..Len(processed_log) :
          i < j =>
             \/ processed_log[i].pass = "main" /\ processed_log[j].pass = "retry"
             \/ /\ processed_log[i].pass = processed_log[j].pass
                /\ processed_log[i].page < processed_log[j].page
    /\ \A i, j \in 1..Len(ckpt_log) :
          (i < j /\ \A k \in 1..(j - 1) : ckpt_log[k].status # "idle") =>
             ckpt_log[i].last_page <= ckpt_log[j].last_page
    /\ \A i \in 1..Len(retry_log), j \in 1..Len(ckpt_log) :
          ckpt_log[j].status = "idle" => retry_log[i] < ckpt_log[j].last_page

\* page 1 failed, page 2 was processed, then the retry pass processed
\* page 1 and moved the checkpoint back from 2 to 1
C10_Witness ==
    /\ processed_log = <<[page |-> 2, pass |-> "main"], [page |-> 1, pass |-> "retry"]>>
    /\ Len(ckpt_log) >= 2
    /\ ckpt_log[Len(ckpt_log) - 1].status = "idle"
    /\ ckpt_log[Len(ckpt_log) - 1].last_page = 2
    /\ db_state[1].status = "running"
    /\ db_state[1].last_page = 1

(***************************************************************************)
(* Quantities of one crawl_all_books call, read off its logs               *)
(***************************************************************************)
\* catalog pages the main loop has attempted to fetch (failed fetches included)
Attempts == Len(fetch_log) + Len(failed_catalog_pages)

\* books persisted by the first n batches of the call
RECURSIVE PersistedIn(_)
PersistedIn(n) == IF n = 0 THEN 0 ELSE PersistedIn(n - 1) + Cardinality(batch_log[n].ok)

\* the value crawl_all_books returns: `return total_books`
ReturnValue == total_books

(***************************************************************************)
(* C11 (as claimed): when an exception other than HTTPClientError is       *)
(* raised while the main loop processes a page, the state is saved with    *)
(* status 'error', the failing page and the running total, and then that   *)
(* same exception leaves crawl_all_books; a call that raises has written   *)
(* no idle checkpoint and has run no retry pass.                           *)
(***************************************************************************)
C11_ErrorCheckpointThenSameException ==
    /\ [][(pc = "save_error" /\ pc' = "close") =>
             /\ db_state' = SaveState(current_page, total_books, "error")
             /\ exc' = exc
         ]_vars
    /\ [](exc # "none" =>
             /\ \A i \in 1..Len(ckpt_log) : ckpt_log[i].status # "idle"
             /\ retry_log = <<>>)

(***************************************************************************)
(* C13: within one call no book URL enters two batches, nor one batch      *)
(* twice; every URL that entered a batch is in the seen-URL set, only      *)
(* URLs that entered a batch are crawled, and a call that has passed       *)
(* initialize() and has run no batch yet has an empty seen-URL set.        *)
(***************************************************************************)
C13_UrlEntersAtMostOneBatch ==
    /\ \A i, j \in 1..Len(batch_log) :
          \A a \in 1..Len(batch_log[i].urls), b \in 1..Len(batch_log[j].urls) :
             (i # j \/ a # b) => batch_log[i].urls[a] # batch_log[j].urls[b]
    /\ \A i \in 1..Len(batch_log) :
          /\ Range(batch_log[i].urls) \subseteq seen_urls
          /\ batch_log[i].ok \subseteq Range(batch_log[i].urls)
    /\ (pc \notin {"idle", "initialize"} /\ exc # "InitializeError" /\ batch_log = <<>>) =>
          seen_urls = {}

\* second call: book 1, stored and seen by the first call, enters the batch of
\* page 1 once (the page lists it twice) and is filtered from the batch of page 2
C13_Witness ==
    /\ runs = 2
    /\ 1 \in books
    /\ Len(batch_log) = 2
    /\ batch_log[1] = [urls |-> <<1>>, ok |-> {}]
    /\ batch_log[2].urls = <<2>>
    /\ processed_log = <<[page |-> 1, pass |-> "main"], [page |-> 2, pass |-> "main"]>>

(***************************************************************************)
(* C15: with max_pages = k >= 1 the main loop attempts at most k catalog   *)
(* pages, failed fetches included; the max-pages flag is set only after k  *)
(* attempts and then no retry pass runs; the flag is not set when the loop *)
(* ends on a page without next link or without book URLs; max_pages <= 0   *)
(* raises ValueError with the persisted state untouched.                   *)
(***************************************************************************)
C15_MaxPagesLimit ==
    /\ []((max_pages # None /\ max_pages >= 1) => Attempts <= max_pages)
    /\ [](hit_max_page_limit =>
             /\ max_pages # None
             /\ Attempts = max_pages
             /\ retry_log = <<>>)
    /\ [][(pc \in {"parse", "checkpoint"} /\ pc' = "mark_idle") =>
             ~hit_max_page_limit']_vars
    /\ [][(pc = "validate" /\ max_pages # None /\ max_pages <= 0 /\ pc' # "initialize") =>
             /\ exc' = "ValueError"
             /\ pc' = "close"
         ]_vars
    /\ [](exc = "ValueError" => db_state = prev_state /\ ckpt_log = <<>>)

\* max_pages = 1: the fetch of page 1 failed, the loop stopped on the limit
\* and the call returned without a retry pass
C15_Witness ==
    /\ pc = "returned"
    /\ max_pages = 1
    /\ hit_max_page_limit
    /\ failed_catalog_pages = <<1>>
    /\ retry_log = <<>>

(***************************************************************************)
(* C16: a crawl_all_books call that has returned or raised has run         *)
(* close(): the HTTP client is closed and the database is disconnected.    *)
(***************************************************************************)
C16_EveryCallEndsClosed ==
    pc \in {"returned", "raised"} => closed /\ ~client_open /\ ~db_connected

\* a call aborted by a parse failure of a catalog page has ended closed
C16_Witness ==
    /\ pc = "raised"
    /\ exc = "ParsingError"
    /\ closed /\ ~client_open /\ ~db_connected
    /\ db_state # <<>> /\ db_state[1].status = "error"

(***************************************************************************)
(* C17 (as claimed): the value crawl_all_books returns is the number of    *)
(* books persisted by all batches of the call, those of the retry pass     *)
(* included.                                                               *)
(***************************************************************************)
C17_ReturnCountsAllBatches ==
    pc = "returned" => ReturnValue = PersistedIn(Len(batch_log))

(***************************************************************************)
(* One _crawl_books_batch call, read off its logs                          *)
(***************************************************************************)
\* the batch has returned to its caller
BatchReturned == b_pc = "done"

\* record_failed_crawl calls of the current batch for one URL and attempt
RecordsOf(url, k) == {r \in record_calls : r.url = url /\ r.attempt = k}

(***************************************************************************)
(* C12 (as claimed): when a batch has returned, no URL was attempted more  *)
(* than twice, every URL whose first crawl failed was attempted a second   *)
(* time after a backoff sleep, and every URL whose second crawl failed too *)
(* was passed to record_failed_crawl with stage 'fetch' and the message    *)
(* 'Max crawl attempts exceeded'.                                          *)
(***************************************************************************)
C12_FailedUrlRetriedThenRecorded ==
    BatchReturned =>
       \A u \in Range(urls_to_crawl) :
          /\ Len(how_log[u]) <= max_attempts
          /\ (how_log[u] # <<>> /\ how_log[u][1] # "ok") =>
                Len(how_log[u]) = 2 /\ slept # <<>>
          /\ (Len(how_log[u]) = 2 /\ how_log[u][2] # "ok") =>
                \E r \in record_calls :
                   /\ r.url = u
                   /\ r.stage = "fetch"
                   /\ r.error = "Max crawl attempts exceeded"

(***************************************************************************)
(* C14: no _crawl_single_book call hands an exception to the batch: it     *)
(* yields a Book exactly when everything worked, and then the book is      *)
(* stored; a ParsingError makes one record_failed_crawl call with stage    *)
(* 'parse', an HTTPClientError makes none, any other exception makes one   *)
(* with stage 'unknown'; and when the batch returns every URL that passed  *)
(* the filter has been processed, whatever happened to the others.         *)
(***************************************************************************)
C14_SingleBookNeverRaises ==
    /\ \A i \in 1..Len(results) :
          /\ results[i] \in {"pending", "Book", "None"}
          /\ results[i] # "pending" =>
                LET h == how_log[remaining[i]]
                IN /\ h # <<>>
                   /\ results[i] = "Book" <=> h[Len(h)] = "ok"
                   /\ results[i] = "Book" => remaining[i] \in books
    /\ \A u \in Urls :
          \A k \in 1..Len(how_log[u]) :
             LET stages == {r.stage : r \in RecordsOf(u, k)}
             IN /\ how_log[u][k] = "parse" => stages = {"parse"}
                /\ how_log[u][k] \in {"upsert", "other"} => stages = {"unknown"}
                /\ how_log[u][k] \in {"ok", "http"} => stages = {}
    /\ BatchReturned =>
          /\ \A u \in Range(urls_to_crawl) : how_log[u] # <<>>
          /\ batch_result =
                Cardinality({u \in Range(urls_to_crawl) : how_log[u][Len(how_log[u])] = "ok"})

\* a batch of two URLs has returned 1: the upsert of book 1 failed and was
\* recorded with stage 'unknown', book 2 was stored
C14_Witness ==
    /\ BatchReturned
    /\ urls_to_crawl = <<1, 2>>
    /\ how_log[1] = <<"upsert">>
    /\ how_log[2] = <<"ok">>
    /\ failed_crawls[1] = [stage |-> "unknown", error |-> "Exception"]
    /\ 2 \in books /\ 1 \notin books
    /\ batch_result = 1

(***************************************************************************)
(* Steps and quantities of the rate limiter                                *)
(***************************************************************************)
\* requests of `key` passed downstream in the window that ends at instant t
PassedInWindow(key, t) ==
    {i \in 1..Len(downstream[key]) :
        downstream[key][i] > t - RateWindow /\ downstream[key][i] <= t}

\* a dispatch call with API key `key` happens in this step
Dispatches(key) ==
    /\ dispatched' = dispatched + 1
    /\ \/ requests'[key] # requests[key]
       \/ last_response' = TooManyRequests(key) /\ in_handler' = in_handler

InBody(j) == job_pc[j] \in {"detect", "report", "alert"}

(***************************************************************************)
(* C19: at most one run_daily_crawl coroutine is inside the job body; a    *)
(* call that starts while another is inside it returns at once, without    *)
(* running change detection or reporting, and leaves nothing behind that   *)
(* would run later: no coroutine changes position and the lock is          *)
(* untouched.                                                              *)
(***************************************************************************)
C19_OneJobBodyAtATime ==
    /\ [](Cardinality({j \in Jobs : InBody(j)}) <= 1)
    /\ [][(triggers' = triggers + 1 /\ \E i \in Jobs : InBody(i)) =>
             /\ job_pc' = job_pc
             /\ lock' = lock
             /\ Len(history') = Len(history) + 1
             /\ history'[Len(history')].outcome = "skipped"
         ]_vars
    /\ [][\A j \in Jobs : (~InBody(j) /\ InBody(j)') => triggers' = triggers + 1]_vars

\* while job 1 is generating its report, a second trigger has been skipped
C19_Witness ==
    /\ job_pc[1] = "report"
    /\ job_pc[2] = "idle"
    /\ lock
    /\ history = <<Ended(2, "skipped", "none", FALSE)>>

(***************************************************************************)
(* C20: no run_daily_crawl call ends by raising, whether change detection, *)
(* report generation or the sending of the alert failed; the lock is held  *)
(* exactly while a coroutine is inside the job body, so it is free after   *)
(* every call and the next trigger runs the body again.                    *)
(***************************************************************************)
C20_RunNeverRaisesAndReleasesLock ==
    /\ [](\A i \in 1..Len(history) : ~history[i].raised)
    /\ [](lock <=> \E j \in Jobs : InBody(j))
    /\ [][(triggers' = triggers + 1 /\ ~lock) => \E j \in Jobs : job_pc'[j] = "detect"]_vars

\* the first run failed in change detection and its alert could not be
\* sent; the run after it completed
C20_Witness ==
    /\ Len(history) = 2
    /\ history[1].outcome = "failed" /\ history[1].alert = "send_failed"
    /\ history[2].outcome = "completed"
    /\ ~lock

\* the coroutines whose GET is in flight
InFlight == {t \in Tasks : task_pc[t] = "inflight"}

(***************************************************************************)
(* C24: the number of GETs in flight from one HTTPClient never exceeds     *)
(* max_concurrent; every outcome of a GET gives its permit back, so the    *)
(* free permits and the GETs in flight always add up to max_concurrent.    *)
(***************************************************************************)
C24_AtMostMaxConcurrentInFlight ==
    /\ [](Cardinality(InFlight) <= max_concurrent)
    /\ [](semaphore >= 0 /\ semaphore + Cardinality(InFlight) = max_concurrent)
    /\ [][\A t \in Tasks :
            (t \in InFlight /\ t \notin InFlight') => semaphore' = semaphore + 1]_vars

\* every permit is taken and a coroutine is queued, after earlier GETs have
\* failed and given their permits back
C24_Witness ==
    /\ Cardinality(InFlight) = max_concurrent
    /\ semaphore = 0
    /\ \E t \in Tasks : task_pc[t] = "waiting"
    /\ gets > max_concurrent
    /\ failure_count > 0

\* a call of the wrapper has ended
RetryEnded == r_pc = "idle" /\ r_fn # "none"

(***************************************************************************)
(* C25: the wrapper invokes the wrapped operation again only after an      *)
(* invocation raised an httpx error, and at most max_retries times in      *)
(* all; the call ends with what its last invocation returned or raised:    *)
(* the first success, the first exception that is not an httpx error, or   *)
(* the httpx error of invocation number max_retries.                       *)
(***************************************************************************)
C25_RetryOnlyTransportFailures ==
    /\ Len(r_log) <= max_retries
    /\ \A i \in 1..(Len(r_log) - 1) : r_log[i].raised \in HttpxErrors
    /\ RetryEnded =>
         /\ r_log # <<>>
         /\ r_result = r_log[Len(r_log)].raised
         /\ r_result \in HttpxErrors => Len(r_log) = max_retries
    /\ r_pc = "calling" => Len(r_log) = attempt_number - 1
    /\ r_pc = "sleeping" => Len(r_log) = attempt_number

\* an operation failed with httpx errors on every one of its max_retries
\* invocations; the call raised the last of them
C25_Witness ==
    /\ RetryEnded
    /\ r_fn = "op"
    /\ Len(r_log) = max_retries
    /\ r_log[1].raised = "ConnectError"
    /\ r_result = "TimeoutException"

(***************************************************************************)
(* C26: a call of HTTPClient.fetch whose GET ended in an httpx error ends  *)
(* in HTTPClientError only after max_retries invocations.                  *)
(***************************************************************************)
C26_FetchRetriedOnTransportFailure ==
    (/\ RetryEnded
     /\ r_fn = "fetch"
     /\ r_result = "HTTPClientError"
     /\ r_log[Len(r_log)].get \in {"ConnectError", "TimeoutException"})
    => Len(r_log) = max_retries

(***************************************************************************)
(* C27: get_database() returns a handle exactly when a connect() has       *)
(* returned normally and no disconnect() was called since; a connect()     *)
(* that raised left neither a client nor a database behind.                *)
(***************************************************************************)
C27_HandleIffConnectReturned ==
    /\ get_result.called => (get_result.returned <=> get_result.after_connect)
    /\ db_client <=> database

\* what get_last_state returns after the calls of `log`, when a record exists
\* only once save_state has been called: the values of the last save, with the
\* page of every later update_last_page
RECURSIVE SavedState(_)
SavedState(log) ==
    IF log = <<>> THEN [found |-> FALSE, state |-> DefaultState]
    ELSE LET before == SavedState(SubSeq(log, 1, Len(log) - 1))
             last == log[Len(log)]
         IN  IF last.op = "save" THEN [found |-> TRUE, state |-> last.state]
             ELSE IF before.found
             THEN [found |-> TRUE,
                   state |-> [before.state EXCEPT !.last_page = last.state.last_page]]
             ELSE before

\* the same, when update_last_page without a record creates one that holds the
\* page only
RECURSIVE WrittenState(_)
WrittenState(log) ==
    IF log = <<>> THEN [found |-> FALSE, state |-> DefaultState]
    ELSE LET before == WrittenState(SubSeq(log, 1, Len(log) - 1))
             last == log[Len(log)]
         IN  IF last.op = "save" THEN [found |-> TRUE, state |-> last.state]
             ELSE [found |-> TRUE,
                   state |-> [before.state EXCEPT !.last_page = last.state.last_page]]

\* the collection holds at most one record, under the fixed key
AtMostOneStateRecord ==
    /\ Cardinality(crawler_state) <= 1
    /\ \A doc \in crawler_state : doc.id = StateKey

(***************************************************************************)
(* C28 as stated: at most one record under the fixed key; get_last_state   *)
(* returns the values of the most recent save_state with the page of any   *)
(* later update_last_page, and nothing when no save_state was called since *)
(* the last clear_state.                                                   *)
(***************************************************************************)
C28_OneRecordLastSave ==
    /\ AtMostOneStateRecord
    /\ state_got.called => state_got.result = SavedState(state_got.log)

(***************************************************************************)
(* C28 amended: at most one record under the fixed key; get_last_state     *)
(* returns nothing exactly when neither save_state nor update_last_page    *)
(* was called since the last clear_state; an update_last_page that finds   *)
(* no record creates one, read back as the defaults with that page.        *)
(***************************************************************************)
C28_OneRecordLastWrite ==
    /\ AtMostOneStateRecord
    /\ state_got.called => state_got.result = WrittenState(state_got.log)

\* save, update_last_page, then get_last_state: the saved values with the
\* updated page come back
C28_Witness ==
    /\ state_got.called
    /\ Len(state_got.log) = 2
    /\ state_got.log[1].op = "save" /\ state_got.log[1].state.status = "running"
    /\ state_got.log[2].op = "update"
    /\ state_got.log[1].state.last_page # state_got.log[2].state.last_page
    /\ state_got.result.found
    /\ state_got.result.state.status = "running"
    /\ state_got.result.state.last_page = state_got.log[2].state.last_page

C30_TotalAndItemsOfMatchingChanges ==
    change_request.called =>
      LET matching == FindSorted(change_request.coll, change_request.since,
                                 change_request.change_type)
      IN  /\ change_response.total = Len(matching)
          /\ change_response.items =
               Slice(matching, (change_request.page - 1) * change_request.limit,
                     change_request.limit)

\* the coroutines of the current page that have not ended
Running == {i \in 1..Len(cd_tasks) : cd_tasks[i].pc # "done"}

(***************************************************************************)
(* C22: during one detect_changes call at most one _process_single_book     *)
(* coroutine is started per book URL, so at most one 'new_book' change      *)
(* entry is written per URL, new_books counts no URL twice, and no two      *)
(* coroutines work on the same URL at the same time.                        *)
(***************************************************************************)
C22_EveryUrlProcessedOnce ==
    /\ \A u \in Urls : cd_started[u] <= 1
    /\ \A u \in Urls : new_book_entries[u] <= 1
    /\ \A i, j \in Running : cd_tasks[i].url = cd_tasks[j].url => i = j
    /\ stats.new_books <= Cardinality(cd_seen)

\* every fetch before the last one of the call was parsed, listed books and
\* had a next link: the walk ended at the first fetch that failed, at the
\* first page without next link and at the first page without book URLs
WalkEndsAsSoonAs ==
    /\ \A i \in 1..Len(cd_fetches) : cd_fetches[i].page = i
    /\ \A i \in 1..(Len(cd_fetches) - 1) :
         /\ cd_fetches[i].how = "parsed"
         /\ cd_fetches[i].urls # <<>>
         /\ cd_fetches[i].page < NumCatalogPages
    /\ cd_pc = "catalog" /\ cd_fetches # <<>> =>
         /\ cd_fetches[Len(cd_fetches)].how = "parsed"
         /\ cd_fetches[Len(cd_fetches)].urls # <<>>
         /\ cd_fetches[Len(cd_fetches)].page < NumCatalogPages
    /\ cd_pc = "catalog" => cd_page = Len(cd_fetches) + 1

\* a failed catalog fetch adds exactly one error and ends the call
FailedFetchCountsOnce ==
    (cd_pc = "catalog" /\ cd_fetches' # cd_fetches
       /\ cd_fetches'[Len(cd_fetches')].how = "failed")
    => /\ stats'.errors = stats.errors + 1
       /\ cd_pc' = "idle"
       /\ cd_outcome' = [how |-> "returned", closed |-> TRUE]

\* a detect_changes call has ended
DetectEnded == cd_pc = "idle" /\ cd_runs > 0

(***************************************************************************)
(* C23 as stated: the walk ends at the first failed catalog fetch (one      *)
(* error added), at the first page without next link and at the first page  *)
(* without book URLs; every detect_changes call ends, closed, by returning  *)
(* its statistics.                                                          *)
(***************************************************************************)
C23_WalkEndsAndReturnsStats ==
    /\ [](WalkEndsAsSoonAs)
    /\ [][FailedFetchCountsOnce]_vars
    /\ [](DetectEnded => cd_outcome = [how |-> "returned", closed |-> TRUE])
    /\ (cd_pc # "idle") ~> (cd_pc = "idle")

(***************************************************************************)
(* C23 amended: the walk ends at the first failed catalog fetch (one error  *)
(* added), at the first page without next link and at the first page        *)
(* without book URLs; every detect_changes call ends, closed; it returns    *)
(* its statistics unless initialize() or parse_catalog_page raised, and     *)
(* then that exception leaves the call.                                     *)
(***************************************************************************)
C23_WalkEndsClosed ==
    /\ [](WalkEndsAsSoonAs)
    /\ [][FailedFetchCountsOnce]_vars
    /\ [](DetectEnded =>
            /\ cd_outcome.closed
            /\ cd_outcome.how \in {"returned", "raised"}
            /\ cd_outcome.how = "raised" <=>
                 \/ cd_fetches = <<>>
                 \/ cd_fetches[Len(cd_fetches)].how = "unparsed"
            /\ cd_outcome.how = "returned" =>
                 stats.total_processed =
                   stats.new_books + stats.changed_books + stats.unchanged_books)
    /\ (cd_pc # "idle") ~> (cd_pc = "idle")

\* page 1 was processed and the fetch of page 2 failed: the call returned
\* with one error and the books of page 1 counted
C23_Witness ==
    /\ DetectEnded
    /\ cd_outcome = [how |-> "returned", closed |-> TRUE]
    /\ Len(cd_fetches) = 2
    /\ cd_fetches[2].how = "failed"
    /\ stats.errors = 1
    /\ stats.total_processed >= 1


(***************************************************************************)
(* Claims about ChangeDetector._process_single_book                        *)
(***************************************************************************)
\* a call whose fetch and parse succeeded has returned
BookProcessed == pb_pc = "idle" /\ pb_result = "returned" /\ pb_stats.errors = 0

\* the compared fields in which two books differ
DifferingFields(old, new) ==
    {f \in {"price_incl_tax", "price_excl_tax", "availability", "rating"} : old[f] # new[f]}
      \cup (IF OrEmpty(old.description) # OrEmpty(new.description)
            THEN {"description"} ELSE {})

\* the fields of the change entries the call wrote
EntryFields == {pb_entries[i].field : i \in 1..Len(pb_entries)}

\* the counters of the returned stats that say what happened to the book
BookCounters == <<pb_stats.new_books, pb_stats.changed_books, pb_stats.unchanged_books>>

\* C21: for a URL that was fetched and parsed, a call that returned did
\* exactly one of: (no stored document) upsert the book, write one
\* 'new_book' entry and count new_books 1; (stored document with the same
\* content hash) count unchanged_books 1 and write nothing; (stored document
\* with another hash) compare the fields and, when none differs, count
\* unchanged_books 1 without upsert, otherwise count changed_books 1, write
\* one change entry per differing field and upsert the new book state.
C21_ProcessedBookOutcome ==
    BookProcessed =>
      IF ~pb_existing.present
      THEN /\ pb_upserts = 1
           /\ pb_doc = [present |-> TRUE, book |-> pb_book]
           /\ Len(pb_entries) = 1
           /\ pb_entries[1].type = "new_book"
           /\ BookCounters = <<1, 0, 0>>
      ELSE IF pb_existing.book.content_hash = pb_book.content_hash
      THEN /\ pb_upserts = 0
           /\ pb_doc = pb_existing
           /\ pb_entries = <<>>
           /\ BookCounters = <<0, 0, 1>>
      ELSE IF DifferingFields(pb_existing.book, pb_book) = {}
      THEN /\ pb_upserts = 0
           /\ pb_doc = pb_existing
           /\ pb_entries = <<>>
           /\ BookCounters = <<0, 0, 1>>
      ELSE /\ pb_upserts = 1
           /\ pb_doc = [present |-> TRUE, book |-> pb_book]
           /\ Len(pb_entries) = Cardinality(DifferingFields(pb_existing.book, pb_book))
           /\ EntryFields = DifferingFields(pb_existing.book, pb_book)
           /\ \A i \in 1..Len(pb_entries) : pb_entries[i].type # "new_book"
           /\ BookCounters = <<0, 1, 0>>

\* a stored book came back with another price and another rating: two entries
C21_Witness ==
    /\ BookProcessed
    /\ pb_existing.present
    /\ EntryFields = {"price_incl_tax", "rating"}
    /\ pb_stats.changed_books = 1
    /\ pb_doc.book = pb_book

(***************************************************************************)
(* Claims about the circuit breaker's state                                *)
(***************************************************************************)
\* C33: in every reachable state, whatever the interleaving of the
\* concurrent fetches: a closed breaker has a failure counter below the
\* threshold, no open-until timestamp and a trial counter of 0; an open
\* breaker has an open-until timestamp and a trial counter of 0; a half-open
\* breaker has a trial counter between 1 and circuit_half_open_max_calls.
C33_BreakerStateInvariant ==
    /\ circuit_state \in {"closed", "open", "half-open"}
    /\ circuit_state = "closed" =>
         /\ failure_count < circuit_failure_threshold
         /\ circuit_open_until = None
         /\ half_open_attempts = 0
    /\ circuit_state = "open" =>
         /\ circuit_open_until # None
         /\ half_open_attempts = 0
    /\ circuit_state = "half-open" =>
         /\ half_open_attempts >= 1
         /\ half_open_attempts <= circuit_half_open_max_calls

\* the breaker is half-open with its trials used up while a GET admitted
\* when it was still closed is in flight
C33_Witness ==
    /\ circuit_state = "half-open"
    /\ half_open_attempts = circuit_half_open_max_calls
    /\ \E t \in Tasks : task_pc[t] = "inflight" /\ admitted_in[t] = "closed"

(***************************************************************************)
(* Claims about what the rate limiter counts                               *)
(***************************************************************************)
\* the timestamps of a list that lie within the window that ends now
Recent(times) == SelectSeq(times, LAMBDA x : x > rate_now - RateWindow)

\* a dispatch call without API key happens in this step
DispatchesWithoutKey ==
    /\ dispatched' = dispatched + 1
    /\ \A key \in Keys : ~Dispatches(key)

\* C36: the window of a key holds its admitted requests only. A request of
\* a key is admitted exactly when fewer than requests_per_hour of the key's
\* admitted requests lie within the trailing window, whatever number of its
\* requests were rejected before; a rejected request gets 429 and leaves the
\* key's window as it was. A request without API key is passed on and
\* changes no window.
C36_RejectedRequestsNotCounted ==
    /\ [](\A key \in Keys : Recent(requests[key]) = Recent(downstream[key]))
    /\ [][\A key \in Keys :
             Dispatches(key) =>
                IF Len(Recent(downstream[key])) < requests_per_hour
                THEN /\ downstream'[key] = Append(downstream[key], rate_now)
                     /\ in_handler'[key] = in_handler[key] + 1
                ELSE /\ last_response' = TooManyRequests(key)
                     /\ downstream' = downstream
                     /\ in_handler' = in_handler
                     /\ Recent(requests'[key]) = Recent(requests[key])
         ]_vars
    /\ [][DispatchesWithoutKey =>
             /\ in_handler'[NoKey] = in_handler[NoKey] + 1
             /\ requests' = requests
             /\ downstream' = downstream
         ]_vars

\* key 1 reached its limit, was rejected, and is admitted again in the first
\* instant in which its earlier requests have left the window
C36_Witness ==
    /\ last_response = TooManyRequests(1)
    /\ rate_now = 1 + RateWindow
    /\ requests[1] = <<1 + RateWindow>>
    /\ Len(downstream[1]) = requests_per_hour + 1

(***************************************************************************)
(* Claims about GET /books/{book_id}                                       *)
(***************************************************************************)
\* the request of this step finds a book under its store identifier or
\* under its source_url
Resolves(s) ==
    \/ s \in ObjectIds /\ gb_store[s] # NoDoc
    \/ \E oid \in ObjectIds : gb_store[oid] = s

\* C31: GET /books/{id} answers 404 'Book not found: {id}' exactly when {id}
\* is neither the store identifier nor the source_url of a stored book, also
\* when {id} is no well-formed store identifier; otherwise it answers 200
\* with the book found, the one with that identifier first.
C31_IdThenSourceUrlElse404 ==
    [][gb_calls' = gb_calls + 1 =>
         IF Resolves(gb_request')
         THEN /\ gb_response'.status = 200
              /\ gb_response'.book # NoDoc
              /\ \/ gb_response'.book = gb_request'
                 \/ gb_store[gb_response'.book] = gb_request'
         ELSE gb_response' = BookNotFound(gb_request')
      ]_vars

(***************************************************************************)
(* Claims about the statistics of detect_changes                           *)
(***************************************************************************)
\* _process_single_book coroutines started so far in the call
RECURSIVE StartedIn(_)
StartedIn(S) ==
    IF S = {} THEN 0
    ELSE LET u == CHOOSE x \in S : TRUE IN cd_started[u] + StartedIn(S \ {u})

\* the four outcome counters together
Outcomes(s) == s.new_books + s.changed_books + s.unchanged_books + s.errors

\* the walk of the call ended on a catalog fetch failure
EndedOnFetchFailure ==
    cd_fetches # <<>> /\ cd_fetches[Len(cd_fetches)].how = "failed"

\* C34: every URL handed to processing adds exactly 1 to exactly one of
\* new_books, changed_books, unchanged_books, errors, also when a store
\* operation raises in the middle of processing it: the four counters add up
\* to the number of URLs whose processing was gathered, plus 1 when the
\* walk ended on a catalog fetch failure; the statistics returned have
\* total_processed = new_books + changed_books + unchanged_books.
C34_StatisticsConservation ==
    /\ Outcomes(stats) =
         StartedIn(Urls) - Len(cd_tasks) + (IF EndedOnFetchFailure THEN 1 ELSE 0)
    /\ DetectEnded /\ cd_outcome.how = "returned" =>
         /\ cd_tasks = <<>>
         /\ stats.total_processed =
              stats.new_books + stats.changed_books + stats.unchanged_books

\* the first call returned after three coroutines; for one URL the book was
\* upserted and the write of its 'new_book' entry raised: that URL counts as
\* the one error of the call
C34_Witness ==
    /\ DetectEnded
    /\ cd_runs = 1
    /\ cd_outcome.how = "returned"
    /\ ~EndedOnFetchFailure
    /\ StartedIn(Urls) = 3
    /\ Outcomes(stats) = 3
    /\ stats.errors = 1
    /\ \E u \in Urls :
         cd_started[u] = 1 /\ cd_store[u] # None /\ new_book_entries[u] = 0

(***************************************************************************)
(* Claims about the stored content hash                                    *)
(***************************************************************************)
\* C35: after a URL was processed without error its stored document carries
\* the content hash of the book just parsed, whichever hashed field changed;
\* so when the next run parses the same book again it finds the stored hash
\* equal, and that run writes no change entry and no book update.
C35_StoredHashOfParsedBook ==
    /\ [](BookProcessed =>
            /\ pb_doc.present
            /\ pb_doc.book.content_hash = pb_book.content_hash)
    /\ [][(BookProcessed /\ pb_pc' = "find" /\ pb_book' = pb_book) =>
            pb_doc.book.content_hash = pb_book'.content_hash]_vars
    /\ [](BookProcessed /\ pb_existing.present /\ pb_existing.book = pb_book =>
            pb_entries = <<>> /\ pb_upserts = 0)

(***************************************************************************)
(* Claims about the termination of crawl_all_books                         *)
(***************************************************************************)
\* C32: every crawl_all_books call over a finite catalog ends, also with
\* max_pages unset and catalog fetches that fail: the main loop is left, the
\* retry pass ends and close() is reached.
C32_EveryRunTerminates ==
    /\ (pl_pc \in {"loop", "fetch"}) ~> (pl_pc \in {"mark_idle", "close"})
    /\ (pl_pc = "retry") ~> (pl_pc = "close")
    /\ (pl_pc # "idle") ~> (pl_pc = "idle" /\ pl_closed)

====
